---- MODULE Spec2Model ----
(***************************************************************************)
(* Model of the Grafana -> TRMNL data service: variable interpolation,     *)
(* panel queries, query-result parsing, the transformer registry, the      *)
(* threshold helpers and the two callers (HTTP endpoint, push mode).       *)
(*                                                                         *)
(* Strings are sequences of one-character strings, so that str.replace,    *)
(* str.lower and the "in" substring test are computed, not assumed.        *)
(* JSON values are tagged records [t, v]: t is the Python type, v a        *)
(* sequence (the characters of a str, the one number of an int, the items  *)
(* of a list, the [k, v] entries of a dict in insertion order).            *)
(***************************************************************************)
EXTENDS Integers, Sequences, FiniteSets, TLC

VARIABLES
    obj,          \* _substitute_variables: the structure passed in
    variables,    \* _substitute_variables: the caller's variable map (or None)
    substituted,  \* _substitute_variables: the returned structure, NotCalled before the call
    heap,         \* query_panel: the dict objects in memory, by address
    panel,        \* query_panel: the Panel (targets: list of references, datasource: reference or None)
    panel_data,   \* query_panel: the dashboard JSON the Panel was parsed from
    queries,      \* query_panel: the queries of the latest call, as sent upstream
    calls,        \* query_panel: number of calls made on the panel
    passed,       \* query_panel: the variables argument of the latest call, NotCalled before
    frame_data,   \* DataFrame.from_api_response: the frame payload
    frame,        \* DataFrame.from_api_response: the DataFrame returned, NotCalled before
    response,     \* QueryResult.from_api_response: the /api/ds/query response
    query_result, \* QueryResult.from_api_response: the QueryResult returned, NotCalled before
    th_panel,     \* threshold helpers: the Panel (options, field_config)
    th_value,     \* threshold helpers: the measured value
    colors,       \* _get_threshold_color: the results of the calls made, in order
    statuses,     \* PolystatTransformer._get_status: the results of the calls made, in order
    _TRANSFORMERS,  \* transformers: the registry, panel type -> class, in insertion order
    imported,       \* transformers: the transformer modules imported so far
    cls_panel_type, \* transformers: the panel_type attribute set on each decorated class
    lookups,        \* get_transformer: the calls made, [panel_type, result], in order
    caller,         \* the latest cycle: "get_data", "fetch_and_send", or "none" before any
    cycle_panel,    \* the latest cycle: the panel found, NotCalled when none was
    cycle_result,   \* the latest cycle: the QueryResult of query_panel, NotCalled when not reached
    invoked,        \* the latest cycle: the classes whose transform was invoked, in order
    transformed,    \* the latest cycle: what transform returned or raised, NotCalled when not invoked
    payload,        \* the latest cycle: the JSON body returned, or the variables handed to trmnl.send
    status,         \* get_data: the HTTP status returned (0 outside get_data)
    success,        \* fetch_and_send: the value returned (FALSE outside fetch_and_send)
    webhook,        \* fetch_and_send: the calls of trmnl.send, [payload, answer, result], in order
    escaped,        \* fetch_and_send: the exception that left the call, None when it returned
    t_panel,        \* a transformer call: the Panel (field_config, transformations)
    t_frames,       \* a transformer call: the frames of the QueryResult
    t_kwargs,       \* a transformer call: the options passed by keyword
    t_op,           \* a transformer call: the method called, "none" before the call
    t_out,          \* a transformer call: what the method returned, NotCalled before the call
    ts,             \* _format_timestamp: the timestamp passed in
    ts_out,         \* _format_timestamp: what the call returned or raised, NotCalled before
    _requests,      \* RateLimiter: grafana_url -> the timestamps recorded, oldest first
    RATE_LIMIT,     \* RateLimiter: the environment variable read by limit (Absent: not set)
    clock,          \* RateLimiter: time.time() at the latest call, in seconds
    allowed         \* RateLimiter: the calls of is_allowed made, [url, at, result], in order

substVars == <<obj, variables, substituted>>
queryVars == <<heap, panel, panel_data, queries, calls, passed>>
frameVars == <<frame_data, frame>>
resultVars == <<response, query_result>>
thresholdVars == <<th_panel, th_value, colors, statuses>>
registryVars == <<_TRANSFORMERS, imported, cls_panel_type, lookups>>
cycleVars == <<caller, cycle_panel, cycle_result, invoked, transformed, payload, status, success,
              webhook, escaped>>
transformVars == <<t_panel, t_frames, t_kwargs, t_op, t_out>>
timestampVars == <<ts, ts_out>>
limiterVars == <<_requests, RATE_LIMIT, clock, allowed>>

vars == <<substVars, queryVars, frameVars, resultVars, thresholdVars, registryVars, cycleVars,
          transformVars, timestampVars, limiterVars>>

NotCalled == [t |-> "notcalled", v |-> <<>>]
Idle == [t |-> "idle", v |-> <<>>]

---------------------------------------------------------------------------
(* Python values *)

None == [t |-> "NoneType", v |-> <<>>]
PyStr(chars) == [t |-> "str", v |-> chars]
PyInt(n) == [t |-> "int", v |-> <<n>>]
PyList(items) == [t |-> "list", v |-> items]
PyBool(b) == [t |-> "bool", v |-> <<b>>]
PyDict(entries) == [t |-> "dict", v |-> entries]
Entry(key, val) == [k |-> key, v |-> val]

\* an exception that leaves the call
Raised(exc) == [t |-> "raised", v |-> <<exc>>]

RECURSIVE Digits(_)
Digits(n) ==
    IF n < 10
    THEN <<CASE n = 0 -> "0" [] n = 1 -> "1" [] n = 2 -> "2" [] n = 3 -> "3"
             [] n = 4 -> "4" [] n = 5 -> "5" [] n = 6 -> "6" [] n = 7 -> "7"
             [] n = 8 -> "8" [] OTHER -> "9">>
    ELSE Digits(n \div 10) \o Digits(n % 10)

\* str(value) for the value types a variable map carries
Str(value) ==
    CASE value.t = "str" -> value.v
      [] value.t = "int" -> IF value.v[1] < 0 THEN <<"-">> \o Digits(-value.v[1])
                            ELSE Digits(value.v[1])
      [] value.t = "bool" -> IF value.v[1] THEN <<"T", "r", "u", "e">>
                             ELSE <<"F", "a", "l", "s", "e">>
      [] OTHER -> <<"N", "o", "n", "e">>

\* bool(x) of a container or None
Truthy(value) == value.t # "NoneType" /\ value.v # <<>>

\* dict helpers over insertion-ordered entries
HasKey(entries, key) == \E i \in 1..Len(entries) : entries[i].k = key
Get(entries, key) == entries[CHOOSE i \in 1..Len(entries) : entries[i].k = key].v

RECURSIVE SelectEntries(_, _)
SelectEntries(entries, drop) ==
    IF entries = <<>> THEN <<>>
    ELSE IF HasKey(drop, Head(entries).k) THEN SelectEntries(Tail(entries), drop)
    ELSE <<Head(entries)>> \o SelectEntries(Tail(entries), drop)

\* {**a, **b}: a's keys keep their position and take b's value on collision,
\* b's new keys follow in b's order
RECURSIVE Overridden(_, _)
Overridden(a, b) ==
    IF a = <<>> THEN <<>>
    ELSE <<IF HasKey(b, Head(a).k) THEN Entry(Head(a).k, Get(b, Head(a).k)) ELSE Head(a)>>
             \o Overridden(Tail(a), b)

DictMerge(a, b) == Overridden(a, b) \o SelectEntries(b, a)

---------------------------------------------------------------------------
(* service/grafana/client.py: variable interpolation *)

c_rate_interval == <<"_","_","r","a","t","e","_","i","n","t","e","r","v","a","l">>
c_interval == <<"_","_","i","n","t","e","r","v","a","l">>
c_interval_ms == <<"_","_","i","n","t","e","r","v","a","l","_","m","s">>
c_range == <<"_","_","r","a","n","g","e">>
c_range_s == <<"_","_","r","a","n","g","e","_","s">>
c_range_ms == <<"_","_","r","a","n","g","e","_","m","s">>

GRAFANA_BUILTINS ==
    << Entry(c_rate_interval, PyStr(<<"5","m">>)),
       Entry(c_interval, PyStr(<<"1","m">>)),
       Entry(c_interval_ms, PyStr(<<"6","0","0","0","0">>)),
       Entry(c_range, PyStr(<<"1","h">>)),
       Entry(c_range_s, PyStr(<<"3","6","0","0">>)),
       Entry(c_range_ms, PyStr(<<"3","6","0","0","0","0","0">>)) >>

StartsWithAt(s, i, old) ==
    /\ i + Len(old) - 1 <= Len(s)
    /\ \A j \in 1..Len(old) : s[i + j - 1] = old[j]

\* str.replace(old, new) for a non-empty old: leftmost non-overlapping occurrences
RECURSIVE ReplaceFrom(_, _, _, _)
ReplaceFrom(s, i, old, new) ==
    IF i > Len(s) THEN <<>>
    ELSE IF StartsWithAt(s, i, old) THEN new \o ReplaceFrom(s, i + Len(old), old, new)
    ELSE <<s[i]>> \o ReplaceFrom(s, i + 1, old, new)

Replace(s, old, new) == ReplaceFrom(s, 1, old, new)

BracedRef(name) == <<"$", "{">> \o name \o <<"}">>
BareRef(name) == <<"$">> \o name

\* the body of the loop over all_vars.items(): both patterns of one variable
ReplaceOne(s, name, value) ==
    Replace(Replace(s, BracedRef(name), Str(value)), BareRef(name), Str(value))

RECURSIVE SubstituteStr(_, _)
SubstituteStr(s, all_vars) ==
    IF all_vars = <<>> THEN s
    ELSE SubstituteStr(ReplaceOne(s, Head(all_vars).k, Head(all_vars).v), Tail(all_vars))

AllVars(vs) == DictMerge(GRAFANA_BUILTINS, IF Truthy(vs) THEN vs.v ELSE <<>>)

RECURSIVE _substitute_variables(_, _)
RECURSIVE SubstituteItems(_, _)
RECURSIVE SubstituteEntries(_, _)

\* {k: _substitute_variables(v, variables) for k, v in obj.items()}
SubstituteEntries(entries, vs) ==
    IF entries = <<>> THEN <<>>
    ELSE <<Entry(Head(entries).k, _substitute_variables(Head(entries).v, vs))>>
             \o SubstituteEntries(Tail(entries), vs)

\* [_substitute_variables(item, variables) for item in obj]
SubstituteItems(items, vs) ==
    IF items = <<>> THEN <<>>
    ELSE <<_substitute_variables(Head(items), vs)>> \o SubstituteItems(Tail(items), vs)

_substitute_variables(o, vs) ==
    IF AllVars(vs) = <<>> THEN o
    ELSE CASE o.t = "str" -> PyStr(SubstituteStr(o.v, AllVars(vs)))
           [] o.t = "dict" -> PyDict(SubstituteEntries(o.v, vs))
           [] o.t = "list" -> PyList(SubstituteItems(o.v, vs))
           [] OTHER -> o

---------------------------------------------------------------------------
(* Inputs of the interpolation check *)

MaxDepth == 2

c_ds == <<"d", "s">>
c_job == <<"j", "o", "b">>
c_uid == <<"u", "i", "d">>
c_datasource == <<"d","a","t","a","s","o","u","r","c","e">>
c_refId == <<"r", "e", "f", "I", "d">>
c_expr == <<"e", "x", "p", "r">>
c_uid_1 == <<"u", "i", "d", "-", "1">>
c_30s == <<"3", "0", "s">>

BuiltinNames == {GRAFANA_BUILTINS[i].k : i \in 1..Len(GRAFANA_BUILTINS)}
RefNames == BuiltinNames \cup {c_ds, c_job}
Refs == {BareRef(n) : n \in RefNames} \cup {BracedRef(n) : n \in RefNames}

\* query strings: one reference alone, or inside a range selector, and a few
\* strings with two references or none
Templates ==
    {pre \o r \o post : pre \in {<<>>, <<"u", "p", "[">>}, post \in {<<>>, <<"]">>}, r \in Refs}
    \cup {BareRef(c_ds) \o <<"/">> \o BracedRef(c_interval),
          BracedRef(c_range_ms) \o BareRef(c_range),
          <<"u", "p">>, <<"$">>, <<>>}

\* the variable maps a caller passes: None, empty, user variables, overrides of
\* built-ins, a non-string value, a value that itself holds a reference
VariableMaps ==
    { None,
      PyDict(<<>>),
      PyDict(<<Entry(c_ds, PyStr(c_uid_1))>>),
      PyDict(<<Entry(c_interval, PyStr(c_30s))>>),
      PyDict(<<Entry(c_interval_ms, PyInt(250)), Entry(c_ds, PyStr(c_uid_1))>>),
      PyDict(<<Entry(c_job, PyStr(BareRef(c_ds))), Entry(c_ds, PyStr(c_uid_1))>>) }

\* structures of nesting depth <= d around one string leaf
RECURSIVE Structures(_, _)
Structures(leaf, d) ==
    IF d = 0 THEN {leaf}
    ELSE LET inner == Structures(leaf, d - 1) IN
         inner
         \cup {PyDict(<<Entry(c_refId, PyStr(<<"A">>)), Entry(c_datasource, x)>>) : x \in inner}
         \cup {PyList(<<x, PyInt(5), None>>) : x \in inner}

SubstInputs ==
    /\ \E tpl \in Templates : obj \in Structures(PyStr(tpl), MaxDepth)
    /\ variables \in VariableMaps
    /\ substituted = NotCalled

SubstIdle ==
    /\ obj = Idle
    /\ variables = Idle
    /\ substituted = Idle

\* a call of _substitute_variables(obj, variables)
Substitute ==
    /\ substituted = NotCalled
    /\ substituted' = _substitute_variables(obj, variables)
    /\ UNCHANGED <<obj, variables>>
    /\ UNCHANGED <<queryVars, frameVars, resultVars, thresholdVars, registryVars, cycleVars, transformVars, timestampVars, limiterVars>>

SubstNext == Substitute


---------------------------------------------------------------------------
(* service/grafana/client.py: query_panel, over objects in memory *)

\* A dict object lives at an address of the heap; a value that is a dict is a
\* reference to it, so that two holders of one dict see each other's writes.
Ref(a) == [t |-> "ref", v |-> <<a>>]

\* the value with every reference replaced by the dict it points to
RECURSIVE Deref(_, _)
RECURSIVE DerefEntries(_, _)
DerefEntries(h, entries) ==
    IF entries = <<>> THEN <<>>
    ELSE <<Entry(Head(entries).k, Deref(h, Head(entries).v))>> \o DerefEntries(h, Tail(entries))

Deref(h, val) == IF val.t = "ref" THEN PyDict(DerefEntries(h, h[val.v[1]])) ELSE val

RECURSIVE DerefAll(_, _)
DerefAll(h, vals) ==
    IF vals = <<>> THEN <<>> ELSE <<Deref(h, Head(vals))>> \o DerefAll(h, Tail(vals))

\* the objects of a JSON value placed in memory: [h: the heap, val: the value]
RECURSIVE Store(_, _)
RECURSIVE StoreEntries(_, _, _)
StoreEntries(h, entries, done) ==
    IF entries = <<>> THEN [h |-> h, val |-> done]
    ELSE LET r == Store(h, Head(entries).v) IN
         StoreEntries(r.h, Tail(entries), Append(done, Entry(Head(entries).k, r.val)))

RECURSIVE StoreItems(_, _, _)
StoreItems(h, items, done) ==
    IF items = <<>> THEN [h |-> h, val |-> done]
    ELSE LET r == Store(h, Head(items)) IN StoreItems(r.h, Tail(items), Append(done, r.val))

Store(h, val) ==
    CASE val.t = "dict" ->
           LET r == StoreEntries(h, val.v, <<>>) IN
           [h |-> Append(r.h, r.val), val |-> Ref(Len(r.h) + 1)]
      [] val.t = "list" ->
           LET r == StoreItems(h, val.v, <<>>) IN [h |-> r.h, val |-> PyList(r.val)]
      [] OTHER -> [h |-> h, val |-> val]

\* bool(x)
TruthyAt(h, val) ==
    CASE val.t = "ref" -> h[val.v[1]] # <<>>
      [] val.t = "int" -> val.v[1] # 0
      [] OTHER -> Truthy(val)

\* an aliasing slip: the "copy" is the target itself
AliasDict(h, a) == [h |-> h, val |-> Ref(a)]

\* dict.copy(): a new dict holding the same values (nested dicts are shared)
CopyDict(h, a) == [h |-> Append(h, h[a]), val |-> Ref(Len(h) + 1)]

\* d[key] = val on the dict at address a
SetItem(h, a, key, val) ==
    [h EXCEPT ![a] =
        IF HasKey(h[a], key)
        THEN Overridden(h[a], <<Entry(key, val)>>)
        ELSE Append(h[a], Entry(key, val))]

\* _substitute_variables on an object in memory: the comprehensions build new
\* dicts from what they read
SubstituteObject(h, val, vs) == Store(h, _substitute_variables(Deref(h, val), vs))

c_type == <<"t", "y", "p", "e">>
c_prometheus == <<"p", "r", "o", "m">>
c_own == <<"o", "w", "n">>

\* a slip in the order: the variables are substituted in the copy before the
\* panel's datasource is put into it
BuildQuery_substituting_first(h, target, datasource, vs) ==
    LET copy == CopyDict(h, target.v[1])
        sub == SubstituteObject(copy.h, copy.val, vs)
        q == sub.val.v[1]
        inherits ==
            /\ \/ ~HasKey(sub.h[q], c_datasource)
               \/ ~TruthyAt(sub.h, Get(sub.h[q], c_datasource))
            /\ TruthyAt(sub.h, datasource)
    IN [h |-> IF inherits THEN SetItem(sub.h, q, c_datasource, datasource) ELSE sub.h,
        val |-> sub.val]

\* one iteration of the loop over panel.targets: [h, val: the query appended]
BuildQuery(h, target, datasource, vs) ==
    LET copy == CopyDict(h, target.v[1])
        q == copy.val.v[1]
        inherits ==
            /\ \/ ~HasKey(copy.h[q], c_datasource)
               \/ ~TruthyAt(copy.h, Get(copy.h[q], c_datasource))
            /\ TruthyAt(copy.h, datasource)
        h1 == IF inherits THEN SetItem(copy.h, q, c_datasource, datasource) ELSE copy.h
    IN SubstituteObject(h1, copy.val, vs)

RECURSIVE BuildQueries(_, _, _, _, _)
BuildQueries(h, targets, datasource, vs, done) ==
    IF targets = <<>> THEN [h |-> h, val |-> done]
    ELSE LET r == BuildQuery(h, Head(targets), datasource, vs) IN
         BuildQueries(r.h, Tail(targets), datasource, vs, Append(done, r.val))

MaxTargets == 2
MaxCalls == 2

\* panel-level datasource of the dashboard JSON: absent, empty, a variable
\* reference by itself, or with a uid that is a variable reference
PanelDatasources ==
    { None,
      PyDict(<<>>),
      PyStr(BareRef(c_ds)),
      PyDict(<<Entry(c_type, PyStr(c_prometheus)), Entry(c_uid, PyStr(BracedRef(c_ds)))>>) }

\* targets: without a datasource, with an empty or null one, with their own
TargetKinds ==
    { PyDict(<<Entry(c_refId, PyStr(<<"A">>)), Entry(c_expr, PyStr(BareRef(c_interval_ms)))>>),
      PyDict(<<Entry(c_refId, PyStr(<<"B">>)), Entry(c_datasource, None)>>),
      PyDict(<<Entry(c_refId, PyStr(<<"C">>)), Entry(c_datasource, PyDict(<<>>)),
               Entry(c_expr, PyStr(BareRef(c_job)))>>),
      PyDict(<<Entry(c_refId, PyStr(<<"D">>)),
               Entry(c_datasource, PyDict(<<Entry(c_uid, PyStr(c_own))>>))>>) }

RECURSIVE ListsOf(_, _)
ListsOf(S, n) ==
    IF n = 0 THEN {<<>>}
    ELSE ListsOf(S, n - 1) \cup {Append(l, x) : l \in ListsOf(S, n - 1), x \in S}

TargetLists == ListsOf(TargetKinds, MaxTargets)

PanelData(ds, targets) == <<Entry(c_datasource, ds), Entry(<<"t","a","r","g","e","t","s">>, PyList(targets))>>

\* the variables a caller of query_panel passes: none, an empty map, a user
\* variable, a user variable beside an override of a built-in
QueryVariableMaps ==
    { None,
      PyDict(<<>>),
      PyDict(<<Entry(c_ds, PyStr(c_uid_1))>>),
      PyDict(<<Entry(c_interval_ms, PyInt(250)), Entry(c_ds, PyStr(c_uid_1))>>) }

\* Panel.from_api_response keeps the JSON's own target and datasource objects
QueryInputs ==
    \E ds \in PanelDatasources, targets \in TargetLists :
        LET d == Store(<<>>, ds)
            t == Store(d.h, PyList(targets))
        IN /\ heap = t.h
           /\ panel = [datasource |-> d.val, targets |-> t.val.v]
           /\ panel_data = PanelData(ds, targets)
           /\ queries = <<>>
           /\ calls = 0
           /\ passed = NotCalled

QueryIdle ==
    /\ heap = <<>>
    /\ panel = Idle
    /\ panel_data = Idle
    /\ queries = <<>>
    /\ calls = 0
    /\ passed = Idle

\* GrafanaClient.query_panel(panel, variables=vs); queries is what it hands to
\* query_datasource
QueryPanel ==
    /\ panel # Idle
    /\ calls < MaxCalls
    /\ \E vs \in QueryVariableMaps :
        LET variables_ == IF Truthy(vs) THEN vs ELSE PyDict(<<>>)
            r == BuildQueries(heap, panel.targets, panel.datasource, variables_, <<>>)
        IN /\ heap' = r.h
           /\ queries' = DerefAll(r.h, r.val)
           /\ passed' = vs
    /\ calls' = calls + 1
    /\ UNCHANGED <<panel, panel_data>>
    /\ UNCHANGED <<substVars, frameVars, resultVars, thresholdVars, registryVars, cycleVars, transformVars, timestampVars, limiterVars>>

QueryNext == QueryPanel

---------------------------------------------------------------------------
(* service/grafana/models.py: DataFrame and QueryResult parsing *)

\* Strings whose characters the code never inspects are written as one piece:
\* "Time" is <<"Time">>, the empty string is <<>>.
S(piece) == PyStr(<<piece>>)
EmptyStr == PyStr(<<>>)

\* bool(x) of a JSON value
TruthyVal(val) ==
    CASE val.t = "int" -> val.v[1] # 0
      [] OTHER -> Truthy(val)

\* a slip: falling back only when the nested value is missing
PresentOr(a, b) == IF a # None THEN a ELSE b

\* a or b
PyOr(a, b) == IF TruthyVal(a) THEN a ELSE b

\* d.get(key) and d.get(key, default) on a dict value
GetOr(d, key, default) == IF HasKey(d.v, key) THEN Get(d.v, key) ELSE default
GetOrNone(d, key) == GetOr(d, key, None)

\* value.get(key, default) of any value: only a dict has the method, and an
\* exception raised on the way to the value goes on
GetOf(d, key, default) ==
    IF d.t = "raised" THEN d
    ELSE IF d.t = "dict" THEN GetOr(d, key, default)
    ELSE Raised("AttributeError")

DataFrame_from_api_response(fd) ==
    LET schema == GetOr(fd, "schema", PyDict(<<>>))
        data == GetOr(fd, "data", PyDict(<<>>))
    IN [ fields |-> PyOr(GetOrNone(schema, "fields"), GetOr(fd, "fields", PyList(<<>>))),
         values |-> PyOr(GetOrNone(data, "values"), GetOr(fd, "values", PyList(<<>>))),
         name |-> PyOr(GetOrNone(schema, "name"), GetOr(fd, "name", EmptyStr)) ]

\* the frames of one results entry, each named by the ref id when it has no name
RECURSIVE ParseFrames(_, _)
ParseFrames(frames_data, ref_id) ==
    IF frames_data = <<>> THEN <<>>
    ELSE LET f == DataFrame_from_api_response(Head(frames_data)) IN
         <<IF ~TruthyVal(f.name) THEN [f EXCEPT !.name = ref_id] ELSE f>>
             \o ParseFrames(Tail(frames_data), ref_id)

\* a slip: no "continue", the frames of an errored entry are collected too
RECURSIVE ParseResultsKeepingFrames(_, _, _)
ParseResultsKeepingFrames(results, frames, error) ==
    IF results = <<>> THEN [frames |-> frames, error |-> error]
    ELSE ParseResultsKeepingFrames(
            Tail(results),
            frames \o ParseFrames(GetOr(Head(results).v, "frames", PyList(<<>>)).v, Head(results).k),
            IF HasKey(Head(results).v.v, "error") THEN Get(Head(results).v.v, "error") ELSE error)

\* the loop over results.items(): [frames, error] after the entries
RECURSIVE ParseResults(_, _, _)
ParseResults(results, frames, error) ==
    IF results = <<>> THEN [frames |-> frames, error |-> error]
    ELSE LET ref_id == Head(results).k
             result == Head(results).v
         IN IF HasKey(result.v, "error")
            THEN ParseResults(Tail(results), frames, Get(result.v, "error"))
            ELSE ParseResults(Tail(results),
                              frames \o ParseFrames(GetOr(result, "frames", PyList(<<>>)).v, ref_id),
                              error)

QueryResult_from_api_response(resp) ==
    ParseResults(GetOr(resp, "results", PyDict(<<>>)).v, <<>>, None)

---------------------------------------------------------------------------
(* Inputs of the parsing checks *)

TimeField == PyDict(<<Entry("name", S("Time")), Entry("type", S("time"))>>)
CpuField == PyDict(<<Entry("name", S("cpu")), Entry("type", S("number"))>>)
ValueField == PyDict(<<Entry("name", S("Value")), Entry("type", S("number"))>>)

\* what a frame can hold: the empty value of each attribute and two contents
FrameNames == {EmptyStr, S("cpu"), S("mem")}
FrameFields == {PyList(<<>>), PyList(<<TimeField, CpuField>>), PyList(<<ValueField>>)}
FrameValues ==
    { PyList(<<>>),
      PyList(<<PyList(<<PyInt(1000), PyInt(2000)>>), PyList(<<PyInt(42), PyInt(35)>>)>>),
      PyList(<<PyList(<<PyInt(7)>>)>>) }

Absent == [t |-> "absent", v |-> <<>>]

\* a dict of the entries whose value is not Absent
RECURSIVE Present(_)
Present(entries) ==
    IF entries = <<>> THEN <<>>
    ELSE IF Head(entries).v = Absent THEN Present(Tail(entries))
    ELSE <<Head(entries)>> \o Present(Tail(entries))

\* a frame payload: every attribute at its nested location, at the root, at
\* both, or nowhere; a payload without schema fields has no "schema" key
FramePayload(nn, nf, nv, rn, rf, rv) ==
    LET schema == Present(<<Entry("name", nn), Entry("fields", nf)>>)
        data == Present(<<Entry("values", nv)>>)
    IN PyDict(Present(<<
            Entry("schema", IF schema = <<>> THEN Absent ELSE PyDict(schema)),
            Entry("data", IF data = <<>> THEN Absent ELSE PyDict(data)),
            Entry("name", rn), Entry("fields", rf), Entry("values", rv)>>))

FramePayloads ==
    {FramePayload(nn, nf, nv, rn, rf, rv) :
        nn \in FrameNames \cup {Absent}, nf \in FrameFields \cup {Absent},
        nv \in FrameValues \cup {Absent}, rn \in FrameNames \cup {Absent},
        rf \in FrameFields \cup {Absent}, rv \in FrameValues \cup {Absent}}

FrameInputs ==
    /\ frame_data \in FramePayloads
    /\ frame = NotCalled

FrameIdle ==
    /\ frame_data = Idle
    /\ frame = Idle

\* a call of DataFrame.from_api_response(frame_data)
ParseFrame ==
    /\ frame = NotCalled
    /\ frame' = DataFrame_from_api_response(frame_data)
    /\ UNCHANGED frame_data
    /\ UNCHANGED <<substVars, queryVars, resultVars, thresholdVars, registryVars, cycleVars, transformVars, timestampVars, limiterVars>>

FrameNext == ParseFrame

MaxResults == 2

RefIds == {S("A"), S("B"), S("C")}

\* frames as they come in a results entry: nested or flat, named or not
ResultFrames ==
    { FramePayload(S("cpu"), PyList(<<TimeField, CpuField>>), PyList(<<PyList(<<PyInt(1000)>>), PyList(<<PyInt(42)>>)>>),
                   Absent, Absent, Absent),
      FramePayload(Absent, PyList(<<TimeField, ValueField>>), PyList(<<PyList(<<PyInt(1000)>>), PyList(<<PyInt(7)>>)>>),
                   Absent, Absent, Absent),
      FramePayload(Absent, Absent, Absent,
                   EmptyStr, PyList(<<ValueField>>), PyList(<<PyList(<<PyInt(7)>>)>>)) }

\* one results entry: an error (a message, or an empty one), or frames
ResultEntries ==
    {PyDict(<<Entry("error", e)>>) : e \in {S("timeout"), S("bad query"), EmptyStr}}
    \cup {PyDict(<<Entry("error", S("timeout")), Entry("frames", PyList(<<f>>))>>) : f \in ResultFrames}
    \cup {PyDict(<<Entry("frames", PyList(fs))>>) : fs \in ListsOf(ResultFrames, 2)}
    \cup {PyDict(<<>>)}

\* results dicts: distinct ref ids, in response order
RECURSIVE ResultDicts(_)
ResultDicts(n) ==
    IF n = 0 THEN {<<>>}
    ELSE ResultDicts(n - 1)
         \cup {Append(d, Entry(id, e)) :
                 d \in {x \in ResultDicts(n - 1) : Len(x) = n - 1},
                 id \in RefIds, e \in ResultEntries}

Responses ==
    {PyDict(<<Entry("results", PyDict(d))>>) :
        d \in {x \in ResultDicts(MaxResults) : \A i, j \in 1..Len(x) : x[i].k = x[j].k => i = j}}
    \cup {PyDict(<<>>)}

ResultInputs ==
    /\ response \in Responses
    /\ query_result = NotCalled

ResultIdle ==
    /\ response = Idle
    /\ query_result = Idle

\* a call of QueryResult.from_api_response(response)
ParseResponse ==
    /\ query_result = NotCalled
    /\ query_result' = QueryResult_from_api_response(response)
    /\ UNCHANGED response
    /\ UNCHANGED <<substVars, queryVars, frameVars, thresholdVars, registryVars, cycleVars, transformVars, timestampVars, limiterVars>>

ResultNext == ParseResponse

---------------------------------------------------------------------------
(* Numbers, str.lower and the substring test *)

\* A float is kept in hundredths: PyFloat(6950) is 69.5; an int n compares as n.0.
PyFloat(h) == [t |-> "float", v |-> <<h>>]
IsNumber(val) == val.t \in {"int", "float"}
Hundredths(val) == IF val.t = "int" THEN val.v[1] * 100 ELSE val.v[1]

UpperCase == <<"A","B","C","D","E","F","G","H","I","J","K","L","M",
               "N","O","P","Q","R","S","T","U","V","W","X","Y","Z">>
LowerCase == <<"a","b","c","d","e","f","g","h","i","j","k","l","m",
               "n","o","p","q","r","s","t","u","v","w","x","y","z">>

LowerChar(ch) ==
    IF \E i \in 1..Len(UpperCase) : UpperCase[i] = ch
    THEN LowerCase[CHOOSE i \in 1..Len(UpperCase) : UpperCase[i] = ch]
    ELSE ch

RECURSIVE Lower(_)
Lower(s) == IF s = <<>> THEN <<>> ELSE <<LowerChar(Head(s))>> \o Lower(Tail(s))

\* sub in s
Contains(sub, s) == \E i \in 1..(Len(s) - Len(sub) + 1) : StartsWithAt(s, i, sub)

w_green == <<"g","r","e","e","n">>
w_yellow == <<"y","e","l","l","o","w">>
w_orange == <<"o","r","a","n","g","e">>
w_red == <<"r","e","d">>
w_blue == <<"b","l","u","e">>

---------------------------------------------------------------------------
(* service/grafana/models.py: Panel.get_thresholds;
   service/transformers/base.py: color helpers *)

get_thresholds(p) ==
    LET defaults == GetOf(p.field_config, "defaults", PyDict(<<>>))
        thresholds == GetOf(defaults, "thresholds", PyDict(<<>>))
    IN GetOf(thresholds, "steps", PyList(<<>>))

_get_color_name(color) ==
    IF ~TruthyVal(color) THEN "green"
    ELSE LET color_lower == Lower(color.v) IN
         IF Contains(w_green, color_lower) THEN "green"
         ELSE IF Contains(w_yellow, color_lower) \/ Contains(w_orange, color_lower) THEN "yellow"
         ELSE IF Contains(w_red, color_lower) THEN "red"
         ELSE IF Contains(w_blue, color_lower) THEN "blue"
         ELSE "green"

\* a slip: a strict comparison with the step's value
StepAppliesStrictly(value, step_value) ==
    step_value = None \/ Hundredths(value) > Hundredths(step_value)

\* step_value is None or value >= step_value
StepApplies(value, step_value) ==
    step_value = None \/ Hundredths(value) >= Hundredths(step_value)

\* the loop over the steps of _get_threshold_color: the color after them
RECURSIVE ScanColor(_, _, _)
ScanColor(steps, value, color) ==
    IF steps = <<>> THEN color
    ELSE ScanColor(Tail(steps), value,
                   IF StepApplies(value, GetOrNone(Head(steps), "value"))
                   THEN _get_color_name(GetOrNone(Head(steps), "color"))
                   ELSE color)

_get_threshold_color(value, p) ==
    IF value = None THEN "green"
    ELSE IF ~TruthyVal(get_thresholds(p)) THEN "green"
    ELSE ScanColor(get_thresholds(p).v, value, "green")

---------------------------------------------------------------------------
(* service/transformers/polystat.py: status of a value *)

w_error == <<"e","r","r","o","r">>
w_down == <<"d","o","w","n">>
w_fail == <<"f","a","i","l">>
w_critical == <<"c","r","i","t","i","c","a","l">>
w_warn == <<"w","a","r","n">>
w_degraded == <<"d","e","g","r","a","d","e","d">>

\* a == b of two JSON scalars
PyEq(a, b) ==
    IF IsNumber(a) /\ IsNumber(b) THEN Hundredths(a) = Hundredths(b)
    ELSE a.t = b.t /\ a = b

RECURSIVE _get_status_from_polystat_thresholds(_, _)
_get_status_from_polystat_thresholds(value, thresholds) ==
    IF thresholds = <<>> THEN "ok"
    ELSE IF PyEq(GetOrNone(Head(thresholds), "value"), value)
         THEN LET state == GetOr(Head(thresholds), "state", PyInt(0)) IN
              IF PyEq(state, PyInt(2)) THEN "critical"
              ELSE IF PyEq(state, PyInt(1)) THEN "warning"
              ELSE "ok"
    ELSE _get_status_from_polystat_thresholds(value, Tail(thresholds))

\* the loop over the steps of _get_status: the raw color after them
RECURSIVE ScanRawColor(_, _, _)
ScanRawColor(steps, value, color) ==
    IF steps = <<>> THEN color
    ELSE ScanRawColor(Tail(steps), value,
                      IF StepApplies(value, GetOrNone(Head(steps), "value"))
                      THEN GetOr(Head(steps), "color", PyStr(w_green))
                      ELSE color)

StatusOfColor(color) ==
    LET color_lower == IF TruthyVal(color) THEN Lower(color.v) ELSE <<>> IN
    IF Contains(w_red, color_lower) THEN "critical"
    ELSE IF Contains(w_yellow, color_lower) \/ Contains(w_orange, color_lower) THEN "warning"
    ELSE "ok"

\* a slip: the standard thresholds take precedence over globalThresholdsConfig
StatusOfNumberStandardFirst(value, p) ==
    LET global_thresholds == GetOr(p.options, "globalThresholdsConfig", PyList(<<>>))
        thresholds == get_thresholds(p)
    IN IF TruthyVal(thresholds)
       THEN StatusOfColor(ScanRawColor(thresholds.v, value, PyStr(w_green)))
       ELSE IF TruthyVal(global_thresholds)
            THEN _get_status_from_polystat_thresholds(value, global_thresholds.v)
       ELSE IF PyEq(value, PyInt(0)) THEN "critical" ELSE "ok"

\* the numeric part of _get_status
StatusOfNumber(value, p) ==
    LET global_thresholds == GetOr(p.options, "globalThresholdsConfig", PyList(<<>>))
        thresholds == get_thresholds(p)
    IN IF TruthyVal(global_thresholds)
       THEN _get_status_from_polystat_thresholds(value, global_thresholds.v)
       ELSE IF ~TruthyVal(thresholds)
            THEN IF PyEq(value, PyInt(0)) THEN "critical" ELSE "ok"
       ELSE StatusOfColor(ScanRawColor(thresholds.v, value, PyStr(w_green)))

_get_status(value, p) ==
    IF value = None THEN "ok"
    ELSE IF ~IsNumber(value)
         THEN LET str_val == Lower(Str(value)) IN
              IF \E x \in {w_error, w_down, w_fail, w_critical} : Contains(x, str_val)
              THEN "critical"
              ELSE IF \E x \in {w_warn, w_degraded} : Contains(x, str_val) THEN "warning"
              ELSE "ok"
    ELSE StatusOfNumber(value, p)

---------------------------------------------------------------------------
(* Inputs of the threshold checks *)

MaxSteps == 3
MaxRepeats == 2

Step(value, color) == PyDict(Present(<<Entry("value", value), Entry("color", color)>>))

\* threshold steps: a baseline, values given as int or float, colors in several
\* spellings, a hex color, a missing color
StepKinds ==
    { Step(None, PyStr(w_green)),
      Step(PyInt(70), PyStr(w_yellow)),
      Step(PyInt(90), PyStr(w_red)),
      Step(PyFloat(8050), PyStr(<<"D","a","r","k","-","O","r","a","n","g","e">>)),
      Step(PyInt(50), PyStr(w_blue)),
      Step(PyInt(40), Absent) }

StepLists == ListsOf(StepKinds, MaxSteps)

\* field_config with the steps, without steps, without thresholds, empty
FieldConfigs ==
    {PyDict(<<Entry("defaults", PyDict(<<Entry("thresholds", PyDict(<<Entry("steps", PyList(l))>>))>>))>>) :
        l \in StepLists}
    \cup {PyDict(<<Entry("defaults", PyDict(<<Entry("thresholds", PyDict(<<>>))>>))>>),
          PyDict(<<Entry("defaults", PyDict(<<>>))>>),
          PyDict(<<>>)}

GlobalThreshold(value, state) == PyDict(Present(<<Entry("value", value), Entry("state", state)>>))

\* panel options: without globalThresholdsConfig, with an empty one, with entries
PanelOptions ==
    { PyDict(<<>>),
      PyDict(<<Entry("globalThresholdsConfig", PyList(<<>>))>>),
      PyDict(<<Entry("globalThresholdsConfig",
                     PyList(<<GlobalThreshold(PyInt(0), PyInt(2)), GlobalThreshold(PyInt(75), PyInt(1)),
                              GlobalThreshold(PyInt(75), PyInt(2)), GlobalThreshold(PyInt(95), Absent),
                              GlobalThreshold(PyInt(70), PyInt(0))>>))>>) }

MeasuredNumbers ==
    { PyInt(0), PyInt(50), PyFloat(6999), PyInt(70), PyInt(75), PyFloat(8999), PyFloat(9000),
      PyInt(95) }

MeasuredTexts ==
    { PyStr(<<"D","O","W","N">>), PyStr(<<"u","p">>), PyStr(<<"W","a","r","n","i","n","g">>),
      PyStr(<<"d","e","g","r","a","d","e","d",":","f","a","i","l">>) }

ThresholdInputs ==
    /\ th_panel \in [options : PanelOptions, field_config : FieldConfigs]
    /\ th_value \in MeasuredNumbers \cup MeasuredTexts \cup {None}
    /\ colors = <<>>
    /\ statuses = <<>>

ThresholdIdle ==
    /\ th_panel = Idle
    /\ th_value = Idle
    /\ colors = <<>>
    /\ statuses = <<>>

\* a call of _get_threshold_color(value, panel); its callers pass numbers or None
GetThresholdColor ==
    /\ th_panel # Idle
    /\ IsNumber(th_value) \/ th_value = None
    /\ Len(colors) < MaxRepeats
    /\ colors' = Append(colors, _get_threshold_color(th_value, th_panel))
    /\ UNCHANGED <<th_panel, th_value, statuses>>
    /\ UNCHANGED <<substVars, queryVars, frameVars, resultVars, registryVars, cycleVars, transformVars, timestampVars, limiterVars>>

\* a call of PolystatTransformer._get_status(value, panel)
GetStatus ==
    /\ th_panel # Idle
    /\ Len(statuses) < MaxRepeats
    /\ statuses' = Append(statuses, _get_status(th_value, th_panel))
    /\ UNCHANGED <<th_panel, th_value, colors>>
    /\ UNCHANGED <<substVars, queryVars, frameVars, resultVars, registryVars, cycleVars, transformVars, timestampVars, limiterVars>>

ThresholdNext == GetThresholdColor \/ GetStatus

---------------------------------------------------------------------------
(* service/transformers/__init__.py: the registry of transformer classes *)

\* d[key] = val on a dict in insertion order
RECURSIVE DictSet(_, _, _)
DictSet(entries, key, val) ==
    IF entries = <<>> THEN <<Entry(key, val)>>
    ELSE IF Head(entries).k = key THEN <<Entry(key, val)>> \o Tail(entries)
    ELSE <<Head(entries)>> \o DictSet(Tail(entries), key, val)

\* the transformer modules the package imports (every *.py but __init__ and base)
Modules == {"gauge", "polystat", "stat", "table", "timeseries"}

\* the @register_transformer decorators of a module, in the order they run:
\* top to bottom of the file, and bottom-up on one class
Decorators(module) ==
    CASE module = "gauge" ->
            << <<"gauge", "GaugeTransformer">>, <<"bargauge", "BarGaugeTransformer">> >>
      [] module = "polystat" ->
            << <<"polystat", "PolystatTransformer">>,
               <<"grafana-polystat-panel", "PolystatTransformer">> >>
      [] module = "stat" ->
            << <<"stat", "StatTransformer">> >>
      [] module = "table" ->
            << <<"table", "TableTransformer">>, <<"table-old", "TableOldTransformer">> >>
      [] module = "timeseries" ->
            << <<"timeseries", "TimeSeriesTransformer">>, <<"graph", "GraphTransformer">>,
               <<"barchart", "BarChartTransformer">> >>

\* the base class a transformer class is declared with
BaseOf(cls) ==
    CASE cls = "BarGaugeTransformer" -> "GaugeTransformer"
      [] cls = "GraphTransformer" -> "TimeSeriesTransformer"
      [] cls = "BarChartTransformer" -> "TimeSeriesTransformer"
      [] cls = "TableOldTransformer" -> "TableTransformer"
      [] OTHER -> "BaseTransformer"

\* register_transformer(panel_type)(cls): [registry, attrs] after the decorator
register_transformer(registry, attrs, panel_type, cls) ==
    [registry |-> DictSet(registry, panel_type, cls), attrs |-> DictSet(attrs, cls, panel_type)]

\* importing a module runs its decorators
RECURSIVE RunDecorators(_, _, _)
RunDecorators(decorators, registry, attrs) ==
    IF decorators = <<>> THEN [registry |-> registry, attrs |-> attrs]
    ELSE LET r == register_transformer(registry, attrs, Head(decorators)[1], Head(decorators)[2])
         IN RunDecorators(Tail(decorators), r.registry, r.attrs)

\* what a call returns or raises
Instance(cls) == [t |-> "instance", v |-> <<cls>>]

\* a slip: indexing the registry, so that an unregistered type raises
get_transformer_indexing(registry, panel_type) ==
    IF HasKey(registry, panel_type) THEN Instance(Get(registry, panel_type))
    ELSE Raised("KeyError")

\* get_transformer(panel_type); the stat module is imported by then, so the
\* import in the fallback branch binds the class and registers nothing
get_transformer(registry, panel_type) ==
    IF HasKey(registry, panel_type) THEN Instance(Get(registry, panel_type))
    ELSE Instance("StatTransformer")

---------------------------------------------------------------------------
(* Inputs of the registry checks *)

MaxLookups == 2

\* the registered type strings, and strings no decorator names
PanelTypes ==
    { "stat", "gauge", "bargauge", "polystat", "grafana-polystat-panel", "table", "table-old",
      "timeseries", "graph", "barchart", "unknown", "text", "Stat", "" }

\* the package as its import begins
RegistryStart ==
    /\ _TRANSFORMERS = <<>>
    /\ imported = {}
    /\ cls_panel_type = <<>>
    /\ lookups = <<>>

RegistryIdle ==
    /\ _TRANSFORMERS = <<>>
    /\ imported = {}
    /\ cls_panel_type = <<>>
    /\ lookups = <<>>

\* one turn of the import loop: glob yields the modules in any order
ImportModule ==
    \E module \in Modules \ imported :
        LET r == RunDecorators(Decorators(module), _TRANSFORMERS, cls_panel_type) IN
        /\ _TRANSFORMERS' = r.registry
        /\ cls_panel_type' = r.attrs
        /\ imported' = imported \cup {module}
        /\ UNCHANGED lookups
        /\ UNCHANGED <<substVars, queryVars, frameVars, resultVars, thresholdVars, cycleVars, transformVars, timestampVars, limiterVars>>

\* a call of get_transformer(panel_type), once the package is imported
GetTransformer ==
    \E panel_type \in PanelTypes :
        /\ imported = Modules
        /\ Len(lookups) < MaxLookups
        /\ lookups' = Append(lookups, [panel_type |-> panel_type,
                                       result |-> get_transformer(_TRANSFORMERS, panel_type)])
        /\ UNCHANGED <<_TRANSFORMERS, imported, cls_panel_type>>
        /\ UNCHANGED <<substVars, queryVars, frameVars, resultVars, thresholdVars, cycleVars, transformVars, timestampVars, limiterVars>>

RegistryNext == ImportModule \/ GetTransformer

---------------------------------------------------------------------------
(* service/transformers: transform, as far as the keys of its result *)

\* Panel.get_unit()
get_unit(p) == GetOf(GetOf(p.field_config, "defaults", PyDict(<<>>)), "unit", EmptyStr)

\* an instance of cls: its class and the panel_type attribute it reads
InstanceOf(cls, attrs) ==
    [cls |-> cls, panel_type |-> IF HasKey(attrs, cls) THEN Get(attrs, cls) ELSE ""]

\* self._base_variables(*args): the method is declared with the panel and
\* nothing else, any other number of arguments is a TypeError at the call
_base_variables(self, args, now) ==
    IF Len(args) # 1 THEN Raised("TypeError")
    ELSE PyDict(<<Entry("panel_type", S(self.panel_type)),
                  Entry("title", args[1].title),
                  Entry("description", args[1].description),
                  Entry("timestamp", now),
                  Entry("unit", get_unit(args[1]))>>)

\* the class whose transform an instance of cls runs
TransformClass(cls) ==
    CASE cls \in {"GraphTransformer", "BarChartTransformer"} -> "TimeSeriesTransformer"
      [] cls = "TableOldTransformer" -> "TableTransformer"
      [] OTHER -> cls

\* the keys a transform sets on every path after the base variables
OwnKeys(cls) ==
    CASE cls = "StatTransformer" -> <<"value", "formatted_value", "color">>
      [] cls = "GaugeTransformer" ->
            <<"value", "min", "max", "formatted_value", "percentage", "color">>
      [] cls = "BarGaugeTransformer" ->
            <<"min", "max", "bars", "value", "formatted_value", "percentage", "color">>
      [] cls = "TableTransformer" -> <<"columns", "rows", "row_count">>
      [] cls = "TimeSeriesTransformer" -> <<"series", "chart_data">>
      [] cls = "PolystatTransformer" -> <<"stats">>

\* a value a transform computes from the frames and the field config; the
\* callers hand it on unread, and it is kept here as set, not as what it is
Computed == [t |-> "computed", v |-> <<>>]

RECURSIVE SetComputed(_, _)
SetComputed(entries, keys) ==
    IF keys = <<>> THEN entries
    ELSE SetComputed(DictSet(entries, Head(keys), Computed), Tail(keys))

\* the arguments a transform passes to _base_variables
BaseVariablesArgs(cls, p, kwargs) ==
    IF cls = "PolystatTransformer" THEN <<p, GetOr(kwargs, "timezone", S("UTC"))>>
    ELSE <<p>>

\* transformer.transform(panel, query_result, **kwargs): the mapping, or what it raises
transform(self, p, qr, kwargs, now) ==
    LET cls == TransformClass(self.cls)
        base == _base_variables(self, BaseVariablesArgs(cls, p, kwargs), now)
    IN IF base.t = "raised" THEN base
       ELSE IF cls = "PolystatTransformer"
       THEN PyDict(SetComputed(DictSet(base.v, "panel_type", S("polystat")), OwnKeys(cls)))
       ELSE PyDict(SetComputed(base.v, OwnKeys(cls)))

---------------------------------------------------------------------------
(* service/api.py get_data and service/main.py fetch_and_send: one cycle *)

\* what a cycle leaves behind
Outcome(p, qr, classes, returned, body, code, ok) ==
    [panel |-> p, result |-> qr, invoked |-> classes, transformed |-> returned, payload |-> body,
     status |-> code, success |-> ok, sends |-> <<>>, escaped |-> None]

\* the error payload of get_data's except branches and of a missing panel
ErrorBody(message) ==
    PyDict(<<Entry("panel_type", S("error")), Entry("error_message", message)>>)

\* the error payload with a title: get_data on a query error, TRMNLClient.send_error
TitledErrorBody(title, message) ==
    PyDict(<<Entry("panel_type", S("error")), Entry("title", title),
             Entry("error_message", message)>>)

\* f"Panel {panel_id} not found in dashboard"
PanelNotFound(panel_id) ==
    PyStr(<<"Panel ">> \o Str(panel_id) \o <<" not found in dashboard">>)

\* f"Internal error: {type(e).__name__}"
InternalError(raised) == PyStr(<<"Internal error: ">> \o raised.v)

\* client.query_panel as the callers see it: the parsed response, or an empty
\* QueryResult when the panel has no targets
QueryOutcome(up) ==
    IF up.kind = "no_targets" THEN [frames |-> <<>>, error |-> None]
    ELSE QueryResult_from_api_response(up.response)

\* if result.error:
ErrorIsTruthy(qr) == TruthyVal(qr.error)

get_data(errors, up, config, now, registry, attrs) ==
    IF errors.v # <<>>
    THEN Outcome(NotCalled, NotCalled, <<>>, NotCalled,
                 PyDict(<<Entry("error", S("Missing or invalid configuration")),
                          Entry("details", errors)>>), 400, FALSE)
    ELSE IF up.kind = "dashboard_error"
    THEN Outcome(NotCalled, NotCalled, <<>>, NotCalled, ErrorBody(up.message), 502, FALSE)
    ELSE IF up.kind = "panel_missing"
    THEN Outcome(NotCalled, NotCalled, <<>>, NotCalled, ErrorBody(PanelNotFound(config.panel_id)), 404, FALSE)
    ELSE IF up.kind = "query_error"
    THEN Outcome(up.panel, NotCalled, <<>>, NotCalled, ErrorBody(up.message), 502, FALSE)
    ELSE LET result == QueryOutcome(up) IN
         IF ErrorIsTruthy(result)
         THEN Outcome(up.panel, result, <<>>, NotCalled, TitledErrorBody(up.panel.title, result.error), 500, FALSE)
         ELSE LET transformer == get_transformer(registry, up.panel.type).v[1]
                  merge_variables ==
                      transform(InstanceOf(transformer, attrs), up.panel, result,
                                PyDict(<<Entry("label_key", config.label),
                                         Entry("timezone", config.timezone)>>), now)
              IN IF merge_variables.t = "raised"
                 THEN Outcome(up.panel, result, <<transformer>>, merge_variables,
                              ErrorBody(InternalError(merge_variables)), 500, FALSE)
                 ELSE Outcome(up.panel, result, <<transformer>>, merge_variables, merge_variables, 200, FALSE)

\* TRMNLClient.send: True when the webhook answers 200, TRMNLError on any
\* other status, on a timeout and on a failed request
TRMNLClient_send(answer) ==
    IF answer.kind = "status" /\ answer.code = 200 THEN PyBool(TRUE)
    ELSE Raised("TRMNLError")

\* one call of trmnl.send and how it ended
WebhookCall(body, answer) ==
    [payload |-> body, answer |-> answer, result |-> TRMNLClient_send(answer)]

\* where the try block of fetch_and_send stops: at the exception that leaves it
\* before any send, or at the one payload it hands to trmnl.send (the last
\* statement of each of its paths); normal says that the payload is the
\* transformer's, sent by the statement before return True
Attempt(p, qr, classes, returned, body, exc, normal) ==
    [panel |-> p, result |-> qr, invoked |-> classes, transformed |-> returned, payload |-> body,
     raised |-> exc, normal |-> normal]

TryBlock(up, config, now, registry, attrs) ==
    IF up.kind = "dashboard_error"
    THEN Attempt(NotCalled, NotCalled, <<>>, NotCalled, NotCalled, Raised("GrafanaAPIError"), FALSE)
    ELSE IF up.kind = "panel_missing"
    THEN Attempt(NotCalled, NotCalled, <<>>, NotCalled,
                 TitledErrorBody(S("Configuration Error"), PanelNotFound(config.panel_id)),
                 None, FALSE)
    ELSE IF up.kind = "query_error"
    THEN Attempt(up.panel, NotCalled, <<>>, NotCalled, NotCalled, Raised("GrafanaAPIError"), FALSE)
    ELSE LET result == QueryOutcome(up) IN
         IF ErrorIsTruthy(result)
         THEN Attempt(up.panel, result, <<>>, NotCalled,
                      TitledErrorBody(up.panel.title, result.error), None, FALSE)
         ELSE LET transformer == get_transformer(registry, up.panel.type).v[1]
                  merge_variables ==
                      transform(InstanceOf(transformer, attrs), up.panel, result,
                                PyDict(<<Entry("label_key", config.label)>>), now)
              IN IF merge_variables.t = "raised"
                 THEN Attempt(up.panel, result, <<transformer>>, merge_variables, NotCalled,
                              merge_variables, FALSE)
                 ELSE Attempt(up.panel, result, <<transformer>>, merge_variables, merge_variables,
                              None, TRUE)

HandlerReport_of_every_exception(exc, up) ==
    IF exc = Raised("GrafanaAPIError") THEN TitledErrorBody(S("Grafana Error"), up.message)
    ELSE TitledErrorBody(S("Error"), InternalError(exc))

\* the payload an except clause reports exc with: except GrafanaAPIError sends
\* str(e), except TRMNLError sends nothing, except Exception sends the name of
\* the exception's type
HandlerReport(exc, up) ==
    IF exc = Raised("GrafanaAPIError") THEN TitledErrorBody(S("Grafana Error"), up.message)
    ELSE IF exc = Raised("TRMNLError") THEN NotCalled
    ELSE TitledErrorBody(S("Error"), InternalError(exc))

\* the send that ends the try block and the except clauses, for a try block
\* that stopped at body: answers.first is the webhook's answer to the send of
\* the try block, answers.handler its answer to the send_error of an except
\* clause, which swallows TRMNLError alone
SendAndHandle(body, up, answers) ==
    LET first == IF body.raised = None THEN <<WebhookCall(body.payload, answers.first)>> ELSE <<>>
        exc == IF body.raised # None THEN body.raised
               ELSE IF first[1].result.t = "raised" THEN first[1].result
               ELSE None
        report == IF exc = None THEN NotCalled ELSE HandlerReport(exc, up)
        second == IF report = NotCalled THEN <<>> ELSE <<WebhookCall(report, answers.handler)>>
        leaves == IF second # <<>> /\ second[1].result.t = "raised"
                      /\ second[1].result # Raised("TRMNLError")
                   THEN second[1].result ELSE None
    IN [panel |-> body.panel, result |-> body.result, invoked |-> body.invoked,
        transformed |-> body.transformed,
        payload |-> IF first # <<>> THEN body.payload ELSE report,
        status |-> 0, success |-> (exc = None /\ body.normal),
        sends |-> first \o second, escaped |-> leaves]

fetch_and_send(up, config, now, answers, registry, attrs) ==
    SendAndHandle(TryBlock(up, config, now, registry, attrs), up, answers)

---------------------------------------------------------------------------
(* Inputs of the cycle checks *)

\* the orders glob can yield the modules in
RECURSIVE Orders(_)
Orders(modules) ==
    IF modules = {} THEN {<<>>}
    ELSE UNION {{<<m>> \o order : order \in Orders(modules \ {m})} : m \in modules}

\* the import loop, run to its end
RECURSIVE ImportAll(_, _, _)
ImportAll(order, registry, attrs) ==
    IF order = <<>> THEN [registry |-> registry, attrs |-> attrs]
    ELSE LET r == RunDecorators(Decorators(Head(order)), registry, attrs)
         IN ImportAll(Tail(order), r.registry, r.attrs)

CpuFrame ==
    FramePayload(S("cpu"), PyList(<<TimeField, CpuField>>),
                 PyList(<<PyList(<<PyInt(1000)>>), PyList(<<PyInt(42)>>)>>), Absent, Absent, Absent)

\* one results entry: an error, an empty error, an error beside frames, frames, no frames
CycleEntries ==
    { PyDict(<<Entry("error", S("timeout"))>>),
      PyDict(<<Entry("error", EmptyStr)>>),
      PyDict(<<Entry("error", S("bad query")), Entry("frames", PyList(<<CpuFrame>>))>>),
      PyDict(<<Entry("frames", PyList(<<CpuFrame>>))>>),
      PyDict(<<Entry("frames", PyList(<<>>))>>) }

\* responses to the queries A and B of a panel, to A alone, and an empty one
CycleResponses ==
    {PyDict(<<Entry("results", PyDict(<<Entry(S("A"), a), Entry(S("B"), b)>>))>>) :
        a \in CycleEntries, b \in CycleEntries}
    \cup {PyDict(<<Entry("results", PyDict(<<Entry(S("A"), a)>>))>>) : a \in CycleEntries}
    \cup {PyDict(<<Entry("results", PyDict(<<>>))>>)}

\* every type a decorator registers, and one that none does
CycleTypes ==
    { "stat", "gauge", "bargauge", "polystat", "grafana-polystat-panel", "table", "table-old",
      "timeseries", "graph", "barchart", "unknown" }

CyclePanels ==
    [ type : CycleTypes, title : {S("CPU")}, description : {EmptyStr},
      field_config : {PyDict(<<>>),
                      PyDict(<<Entry("defaults", PyDict(<<Entry("unit", S("percent"))>>))>>)} ]

\* what Grafana does in a cycle: the dashboard request fails, the dashboard
\* lacks the panel, the query request fails, the panel has no targets, or the
\* query is answered
Upstreams ==
    {[kind |-> "dashboard_error", panel |-> NotCalled, response |-> NotCalled,
      message |-> S("Grafana API error")]}
    \cup {[kind |-> "panel_missing", panel |-> NotCalled, response |-> NotCalled,
           message |-> EmptyStr]}
    \cup {[kind |-> "query_error", panel |-> p, response |-> NotCalled,
           message |-> S("Grafana API error")] : p \in CyclePanels}
    \cup {[kind |-> "no_targets", panel |-> p, response |-> NotCalled, message |-> EmptyStr] :
            p \in CyclePanels}
    \cup {[kind |-> "response", panel |-> p, response |-> r, message |-> EmptyStr] :
            p \in CyclePanels, r \in CycleResponses}

Configs ==
    [ panel_id : {PyInt(7)}, label : {S("name")},
      timezone : {S("UTC"), S("Europe/Berlin")} ]

\* what the webhook answers to the send of the try block and to the send_error
\* of an except clause: 200, another status, a timeout, a failed request
WebhookAnswer ==
    { [kind |-> "status", code |-> 200], [kind |-> "status", code |-> 500],
      [kind |-> "timeout", code |-> 0], [kind |-> "request_error", code |-> 0] }

WebhookAnswers == [first : WebhookAnswer, handler : WebhookAnswer]

\* service/config.py Config: the push service has no timezone setting
PushConfigs == {config \in Configs : config.timezone = S("UTC")}

\* get_config_from_request's errors list
ConfigErrors == {PyList(<<>>), PyList(<<S("api_key is required")>>)}

\* datetime.now(timezone.utc), formatted
Clock == {S("2025-01-01 00:00 UTC"), S("2025-06-30 23:59 UTC")}

\* the service once the transformers package is imported, before any cycle
StartedIn(orders) ==
    /\ \E order \in orders :
            LET r == ImportAll(order, <<>>, <<>>) IN
            /\ _TRANSFORMERS = r.registry
            /\ cls_panel_type = r.attrs
    /\ imported = Modules
    /\ lookups = <<>>
    /\ caller = "none"
    /\ cycle_panel = NotCalled
    /\ cycle_result = NotCalled
    /\ invoked = <<>>
    /\ transformed = NotCalled
    /\ payload = NotCalled
    /\ status = 0
    /\ success = FALSE
    /\ webhook = <<>>
    /\ escaped = NotCalled

CycleStart == StartedIn(Orders(Modules))

\* the push service started with the modules imported in alphabetical order, or
\* in the reverse of it
PushOrders ==
    { <<"gauge", "polystat", "stat", "table", "timeseries">>,
      <<"timeseries", "table", "stat", "polystat", "gauge">> }

PushStart == StartedIn(PushOrders)

CycleIdle ==
    /\ caller = "none"
    /\ cycle_panel = Idle
    /\ cycle_result = Idle
    /\ invoked = <<>>
    /\ transformed = Idle
    /\ payload = Idle
    /\ status = 0
    /\ success = FALSE
    /\ webhook = <<>>
    /\ escaped = Idle

\* what a cycle leaves in the state
Leaves(who, outcome) ==
    /\ caller' = who
    /\ cycle_panel' = outcome.panel
    /\ cycle_result' = outcome.result
    /\ invoked' = outcome.invoked
    /\ transformed' = outcome.transformed
    /\ payload' = outcome.payload
    /\ status' = outcome.status
    /\ success' = outcome.success
    /\ webhook' = outcome.sends
    /\ escaped' = outcome.escaped

\* one request to the HTTP endpoint
GetData ==
    /\ caller = "none"
    /\ cycle_panel # Idle
    /\ \E errors \in ConfigErrors, up \in Upstreams, config \in Configs, now \in Clock :
        /\ \E outcome \in {get_data(errors, up, config, now, _TRANSFORMERS, cls_panel_type)} :
                Leaves("get_data", outcome)
        /\ UNCHANGED registryVars
        /\ UNCHANGED <<substVars, queryVars, frameVars, resultVars, thresholdVars, transformVars, timestampVars, limiterVars>>

\* one push-mode cycle
FetchAndSend ==
    /\ caller = "none"
    /\ cycle_panel # Idle
    /\ \E up \in Upstreams, config \in PushConfigs, now \in Clock :
        /\ \E body \in {TryBlock(up, config, now, _TRANSFORMERS, cls_panel_type)} :
            \E answers \in WebhookAnswers :
                \* fetch_and_send(up, config, now, answers, _TRANSFORMERS, cls_panel_type)
                Leaves("fetch_and_send", SendAndHandle(body, up, answers))
        /\ UNCHANGED registryVars
        /\ UNCHANGED <<substVars, queryVars, frameVars, resultVars, thresholdVars, transformVars, timestampVars, limiterVars>>

CycleNext == GetData \/ FetchAndSend

PushNext == FetchAndSend

---------------------------------------------------------------------------
(* service/grafana/models.py: DataFrame accessors and QueryResult.get_single_value *)

\* A frame is [fields, values, name] as DataFrame.from_api_response leaves it:
\* fields a list of dicts, values a list of columns, one per field.

\* An int too large for one machine word of the model is kept as its digits in
\* base 1 000 000, most significant first: PyLong(<<1, 0, 0>>) is 10^12.
PyLong(limbs) == [t |-> "long", v |-> limbs]

time_names == {S("Time"), S("time"), S("timestamp"), S("Timestamp")}

\* f"field_{i}"
FieldDefaultName(i) == PyStr(<<"field_">> \o Digits(i))

\* f.get("name", f"field_{i}") of the field at position n (i = n - 1)
FieldNameAt(fr, n) == GetOr(fr.fields.v[n], "name", FieldDefaultName(n - 1))

RECURSIVE FieldNamesFrom(_, _)
FieldNamesFrom(fr, n) ==
    IF n > Len(fr.fields.v) THEN <<>>
    ELSE <<FieldNameAt(fr, n)>> \o FieldNamesFrom(fr, n + 1)

get_field_names(fr) == FieldNamesFrom(fr, 1)

\* the positions n with fields[n].get("name") == name and a column
NamedColumns(fr, name) ==
    {n \in 1..Len(fr.fields.v) :
        GetOrNone(fr.fields.v[n], "name") = name /\ n <= Len(fr.values.v)}

get_values_by_field_name(fr, name) ==
    IF NamedColumns(fr, name) = {} THEN None
    ELSE fr.values.v[CHOOSE n \in NamedColumns(fr, name) : \A m \in NamedColumns(fr, name) : n <= m]

\* isinstance(val, (int, float)) and val > 1_000_000_000
OverBillion(val) ==
    CASE val.t = "int" -> val.v[1] > 1000000000
      [] val.t = "float" -> val.v[1] \div 100 > 1000000000
                            \/ (val.v[1] \div 100 = 1000000000 /\ val.v[1] % 100 > 0)
      [] val.t = "long" -> TRUE
      [] OTHER -> FALSE

\* the positions n with fields[n].get("type") == "time" and a column
TypedTimeColumns(fr) ==
    {n \in 1..Len(fr.fields.v) :
        GetOrNone(fr.fields.v[n], "type") = S("time") /\ n <= Len(fr.values.v)}

\* the first of the names Time, time, timestamp, Timestamp that names a column
RECURSIVE FirstNamedTime(_, _)
FirstNamedTime(fr, names) ==
    IF names = <<>> THEN None
    ELSE IF get_values_by_field_name(fr, Head(names)) # None
    THEN get_values_by_field_name(fr, Head(names))
    ELSE FirstNamedTime(fr, Tail(names))

\* a slip: the names tried as timestamp, Timestamp, time, Time
get_time_values_other_order(fr) ==
    IF TypedTimeColumns(fr) # {}
    THEN fr.values.v[CHOOSE n \in TypedTimeColumns(fr) : \A m \in TypedTimeColumns(fr) : n <= m]
    ELSE IF FirstNamedTime(fr, <<S("timestamp"), S("Timestamp"), S("time"), S("Time")>>) # None
    THEN FirstNamedTime(fr, <<S("timestamp"), S("Timestamp"), S("time"), S("Time")>>)
    ELSE IF fr.values.v # <<>> /\ fr.values.v[1].v # <<>> /\ OverBillion(fr.values.v[1].v[1])
    THEN fr.values.v[1]
    ELSE PyList(<<>>)

get_time_values(fr) ==
    IF TypedTimeColumns(fr) # {}
    THEN fr.values.v[CHOOSE n \in TypedTimeColumns(fr) : \A m \in TypedTimeColumns(fr) : n <= m]
    ELSE IF FirstNamedTime(fr, <<S("Time"), S("time"), S("timestamp"), S("Timestamp")>>) # None
    THEN FirstNamedTime(fr, <<S("Time"), S("time"), S("timestamp"), S("Timestamp")>>)
    ELSE IF fr.values.v # <<>> /\ fr.values.v[1].v # <<>> /\ OverBillion(fr.values.v[1].v[1])
    THEN fr.values.v[1]
    ELSE PyList(<<>>)

\* whether get_value_fields keeps the field at position n
IsValueField(fr, n) ==
    /\ GetOrNone(fr.fields.v[n], "type") # S("time")
    /\ FieldNameAt(fr, n) \notin time_names
    /\ n <= Len(fr.values.v)

RECURSIVE ValueFieldsFrom(_, _)
ValueFieldsFrom(fr, n) ==
    IF n > Len(fr.fields.v) THEN <<>>
    ELSE (IF IsValueField(fr, n)
          THEN <<[name |-> FieldNameAt(fr, n), values |-> fr.values.v[n]]>>
          ELSE <<>>)
         \o ValueFieldsFrom(fr, n + 1)

\* the (name, values) pairs of the non-time fields, in field order
get_value_fields(fr) == ValueFieldsFrom(fr, 1)

\* values[-1]
Last(seq) == seq[Len(seq)]

\* a slip: the first element of the column
get_single_value_first(frames) ==
    IF frames = <<>> THEN None
    ELSE LET value_fields == get_value_fields(frames[1]) IN
         IF value_fields # <<>> /\ value_fields[1].values.v # <<>>
         THEN Head(value_fields[1].values.v)
         ELSE None

\* QueryResult.get_single_value()
get_single_value(frames) ==
    IF frames = <<>> THEN None
    ELSE LET value_fields == get_value_fields(frames[1]) IN
         IF value_fields # <<>> /\ value_fields[1].values.v # <<>>
         THEN Last(value_fields[1].values.v)
         ELSE None

---------------------------------------------------------------------------
(* Inputs of the get_single_value checks *)

MaxFields == 3

\* a field named like a time field but not typed as one, and a typed field without a name
NamedTimeField == PyDict(<<Entry("name", S("timestamp")), Entry("type", S("number"))>>)
NamelessField == PyDict(<<Entry("type", S("number"))>>)

SingleFieldKinds == {TimeField, NamedTimeField, CpuField, NamelessField}

\* the column at position i: empty, or two values (which tell the columns and
\* their ends apart)
ColumnKinds(i) == { PyList(<<>>), PyList(<<PyInt(10 * i + 1), PyInt(10 * i + 2)>>) }

RECURSIVE ColumnLists(_)
ColumnLists(n) ==
    IF n <= 0 THEN {<<>>}
    ELSE {Append(cols, c) : cols \in ColumnLists(n - 1), c \in ColumnKinds(n)}

\* frames with up to MaxFields fields, and a column for every field or for all but the last
SingleFrames ==
    UNION { { [fields |-> PyList(fs), values |-> PyList(cols), name |-> S("A")] :
                cols \in ColumnLists(Len(fs)) \cup ColumnLists(Len(fs) - 1) } :
            fs \in ListsOf(SingleFieldKinds, MaxFields) }

\* a frame that follows the first one
OtherFrame ==
    [fields |-> PyList(<<TimeField, ValueField>>),
     values |-> PyList(<<PyList(<<PyInt(1000)>>), PyList(<<PyInt(99)>>)>>), name |-> S("B")]

SingleInputs ==
    /\ t_frames \in {<<>>} \cup {<<fr>> : fr \in SingleFrames}
                    \cup {<<fr, OtherFrame>> : fr \in SingleFrames}
    /\ t_panel = Idle
    /\ t_kwargs = Idle
    /\ t_op = "none"
    /\ t_out = NotCalled

TransformIdle ==
    /\ t_panel = Idle
    /\ t_frames = <<>>
    /\ t_kwargs = Idle
    /\ t_op = "none"
    /\ t_out = Idle

TimestampIdle ==
    /\ ts = Idle
    /\ ts_out = Idle

\* a call of QueryResult.get_single_value()
GetSingleValue ==
    /\ t_op = "none"
    /\ t_out = NotCalled
    /\ t_op' = "get_single_value"
    /\ t_out' = get_single_value(t_frames)
    /\ UNCHANGED <<t_panel, t_frames, t_kwargs>>
    /\ UNCHANGED <<substVars, queryVars, frameVars, resultVars, thresholdVars, registryVars,
                   cycleVars, timestampVars, limiterVars>>

SingleNext == GetSingleValue

---------------------------------------------------------------------------
(* service/grafana/models.py: Panel field config;
   service/transformers/base.py: _format_value *)

FieldDefaults(p) == GetOf(p.field_config, "defaults", PyDict(<<>>))

\* Panel.get_decimals()
get_decimals(p) == GetOf(FieldDefaults(p), "decimals", None)

\* a tuple of values
PyTuple(items) == [t |-> "tuple", v |-> items]

\* Panel.get_min_max()
get_min_max(p) ==
    IF GetOf(FieldDefaults(p), "min", None).t = "raised" THEN GetOf(FieldDefaults(p), "min", None)
    ELSE PyTuple(<<GetOf(FieldDefaults(p), "min", None), GetOf(FieldDefaults(p), "max", None)>>)

\* num / den (den > 0) rounded to an integer, a half going to the even neighbour
RoundHalfEven(num, den) ==
    LET q == num \div den
        rem == num - q * den
    IN IF 2 * rem < den THEN q
       ELSE IF 2 * rem > den THEN q + 1
       ELSE IF q % 2 = 0 THEN q ELSE q + 1

\* round(value, decimals) of a float kept in hundredths, as hundredths; a float
\* with two decimals is its own rounding to two or more places, and x.5, x.25
\* and x.75 are exact in binary, so that a half goes to the even neighbour
\* (another second decimal 5 is no exact half in binary, and the floats
\* rounded to one place have none)
RoundTo(h, decimals) ==
    IF decimals >= 2 THEN h
    ELSE IF decimals = 1 THEN 10 * RoundHalfEven(h, 10)
    ELSE 100 * RoundHalfEven(h, 100)

\* the two decimals of a float's str, without a trailing zero
Fraction(c) ==
    IF c % 10 = 0 THEN Digits(c \div 10) ELSE Digits(c \div 10) \o Digits(c % 10)

\* str(x) of the float x = h / 100 when h < 0 is signed (-0.05 rounds to "-0.0")
FloatStr(h, negative) ==
    LET m == IF h < 0 THEN -h ELSE h IN
    (IF negative THEN <<"-">> ELSE <<>>) \o Digits(m \div 100) \o <<".">> \o Fraction(m % 100)

\* a float with a third decimal: PyFloat3(h, d) is h / 100 + d / 1000, for
\* h >= 0 and d in 1..9 other than 5 (no rounding of it is a half)
PyFloat3(h, d) == [t |-> "float", v |-> <<h, d>>]

\* round(value, places) of m thousandths, as thousandths
RoundMilli(m, places) ==
    IF places >= 3 THEN m
    ELSE IF places = 2 THEN 10 * RoundHalfEven(m, 10)
    ELSE IF places = 1 THEN 100 * RoundHalfEven(m, 100)
    ELSE 1000 * RoundHalfEven(m, 1000)

\* str(x) of the float x = m / 1000, m >= 0: the decimals without trailing zeros
MilliStr(m) ==
    Digits(m \div 1000) \o <<".">> \o Digits((m % 1000) \div 100)
    \o (IF m % 100 = 0 THEN <<>>
        ELSE Digits((m % 100) \div 10) \o (IF m % 10 = 0 THEN <<>> ELSE Digits(m % 10)))

\* the characters of f"{value}" after the float branch of _format_value
FormattedNumber(value, decimals) ==
    IF value.t = "float" /\ Len(value.v) = 2
    THEN MilliStr(RoundMilli(10 * value.v[1] + value.v[2],
                             IF decimals # None THEN decimals.v[1] ELSE 2))
    ELSE IF value.t = "float"
    THEN IF decimals # None THEN FloatStr(RoundTo(value.v[1], decimals.v[1]), value.v[1] < 0)
         ELSE IF value.v[1] % 100 = 0 THEN Str(PyInt(value.v[1] \div 100))
         ELSE FloatStr(value.v[1], value.v[1] < 0)
    ELSE Str(value)

\* a slip: every unit appended after a space
UnitSuffixSpaced(unit) == <<" ">> \o unit.v

\* unit_map.get(unit, f" {unit}")
UnitSuffix(unit) ==
    CASE unit = S("percent") \/ unit = S("percentunit") -> <<"%">>
      [] unit = S("bytes") \/ unit = S("decbytes") -> <<" ", "B">>
      [] unit = S("bits") -> <<" ", "b">>
      [] unit = S("s") -> <<"s">>
      [] unit = S("ms") -> <<"m", "s">>
      [] unit = S("ns") -> <<"n", "s">>
      [] OTHER -> <<" ">> \o unit.v

_format_value(value, unit, decimals) ==
    IF value = None THEN S("N/A")
    ELSE IF TruthyVal(unit) THEN PyStr(FormattedNumber(value, decimals) \o UnitSuffix(unit))
    ELSE PyStr(FormattedNumber(value, decimals))

---------------------------------------------------------------------------
(* service/transformers/gauge.py: GaugeTransformer and BarGaugeTransformer *)

\* int(round(...)), a slip: int(...) alone, which cuts the decimals off
Truncated(num, den) == {IF num >= 0 THEN num \div den ELSE -((-num) \div den)}

\* int(round(num / den * 100)) for den > 0: the quotient is a float, and at an
\* exact half the product falls on either side of it (54.5 of 100 gives 55,
\* 57.5 of 100 gives 57), so that both neighbours are outcomes
Rounded(num, den) ==
    LET q == num \div den
        rem == num - q * den
    IN IF 2 * rem < den THEN {q}
       ELSE IF 2 * rem > den THEN {q + 1}
       ELSE {q, q + 1}

Clamp(n) == IF n < 0 THEN 0 ELSE IF n > 100 THEN 100 ELSE n

\* _calculate_percentage(value, min_val, max_val): the results it can give
_calculate_percentage(value, min_val, max_val) ==
    LET v == Hundredths(value)
        lo == Hundredths(min_val)
        hi == Hundredths(max_val)
    IN IF hi = lo THEN {IF v >= hi THEN 100 ELSE 0}
       ELSE {Clamp(n) : n \in IF hi > lo THEN Rounded((v - lo) * 100, hi - lo)
                                ELSE Rounded((lo - v) * 100, lo - hi)}

\* min_val if min_val is not None else 0, and the same for max with 100
GaugeMin(p) == IF get_min_max(p).v[1] # None THEN get_min_max(p).v[1] ELSE PyInt(0)
GaugeMax(p) == IF get_min_max(p).v[2] # None THEN get_min_max(p).v[2] ELSE PyInt(100)

\* the class attributes the decorators leave
LoadedAttrs == ImportAll(<<"gauge", "polystat", "stat", "table", "timeseries">>, <<>>, <<>>).attrs

\* GaugeTransformer.transform(panel, query_result): the mappings it can return
GaugeTransformer_transform(p, frames, now) ==
    LET base == _base_variables(InstanceOf("GaugeTransformer", LoadedAttrs), <<p>>, now)
        value == get_single_value(frames)
        common == base.v \o <<Entry("value", value), Entry("min", GaugeMin(p)),
                              Entry("max", GaugeMax(p)),
                              Entry("formatted_value",
                                    _format_value(value, get_unit(p), get_decimals(p)))>>
    IN IF IsNumber(value)
       THEN {PyDict(common \o <<Entry("percentage", PyInt(percentage)),
                                Entry("color", S(_get_threshold_color(value, p)))>>) :
                percentage \in _calculate_percentage(value, GaugeMin(p), GaugeMax(p))}
       ELSE {PyDict(common \o <<Entry("percentage", PyInt(0)), Entry("color", S("green"))>>)}

---------------------------------------------------------------------------
\* values[-1] if values else None
LastOrNone(values) == IF values = <<>> THEN None ELSE Last(values)

\* the bars the value fields of one frame give: for each field in order, no bar
\* when its last value is not a number, else a bar with each percentage the
\* calculation can give
RECURSIVE BarsOfFields(_, _)
BarsOfFields(value_fields, p) ==
    IF value_fields = <<>> THEN {<<>>}
    ELSE LET field_name == Head(value_fields).name
             value == LastOrNone(Head(value_fields).values.v)
         IN IF value # None /\ IsNumber(value)
            THEN { <<PyDict(<<Entry("name", field_name), Entry("value", value),
                              Entry("formatted_value",
                                    _format_value(value, get_unit(p), get_decimals(p))),
                              Entry("percentage", PyInt(percentage)),
                              Entry("color", S(_get_threshold_color(value, p)))>>)>> \o rest :
                     percentage \in _calculate_percentage(value, GaugeMin(p), GaugeMax(p)),
                     rest \in BarsOfFields(Tail(value_fields), p) }
            ELSE BarsOfFields(Tail(value_fields), p)

\* a slip: only the first frame is read
BarsOfFirstFrame(frames, p) ==
    IF frames = <<>> THEN {<<>>} ELSE BarsOfFields(get_value_fields(Head(frames)), p)

\* the loop over query_result.frames: the bars lists it can build
RECURSIVE BarsOfFrames(_, _)
BarsOfFrames(frames, p) ==
    IF frames = <<>> THEN {<<>>}
    ELSE { bars \o rest : bars \in BarsOfFields(get_value_fields(Head(frames)), p),
                          rest \in BarsOfFrames(Tail(frames), p) }

\* BarGaugeTransformer.transform(panel, query_result): the mappings it can return
BarGaugeTransformer_transform(p, frames, now) ==
    LET base == _base_variables(InstanceOf("BarGaugeTransformer", LoadedAttrs), <<p>>, now)
        common == base.v \o <<Entry("min", GaugeMin(p)), Entry("max", GaugeMax(p))>>
    IN { PyDict(common \o <<Entry("bars", PyList(bars))>>
                \o IF bars # <<>>
                   THEN <<Entry("value", Get(bars[1].v, "value")),
                          Entry("formatted_value", Get(bars[1].v, "formatted_value")),
                          Entry("percentage", Get(bars[1].v, "percentage")),
                          Entry("color", Get(bars[1].v, "color"))>>
                   ELSE <<Entry("value", None), Entry("formatted_value", S("N/A")),
                          Entry("percentage", PyInt(0)), Entry("color", S("green"))>>) :
         bars \in BarsOfFrames(frames, p) }

---------------------------------------------------------------------------
(* Inputs of the gauge checks *)

\* the values a gauge column ends with: whole and fractional, below, inside
\* and above the ranges, on their bounds, halves of a percent, null, text
GaugeValues ==
    { PyInt(-10), PyInt(0), PyInt(1), PyInt(42), PyFloat(5450), PyFloat(5750), PyFloat(6999),
      PyInt(70), PyInt(100), PyInt(150), PyFloat(25), None, S("up") }

\* min and max as configured: not at all, null, a number
GaugeBounds == {Absent, None, PyInt(0), PyInt(50), PyInt(100), PyInt(200), PyFloat(3330)}

GaugeSteps ==
    PyDict(<<Entry("steps", PyList(<<Step(None, PyStr(w_green)), Step(PyInt(70), PyStr(w_yellow)),
                                     Step(PyInt(90), PyStr(w_red))>>))>>)

GaugePanels ==
    { [ title |-> S("CPU"), description |-> EmptyStr, transformations |-> PyList(<<>>),
        field_config |->
            PyDict(<<Entry("defaults",
                           PyDict(Present(<<Entry("min", lo), Entry("max", hi),
                                            Entry("unit", unit), Entry("decimals", decimals),
                                            Entry("thresholds", thresholds)>>)))>>) ] :
        lo \in GaugeBounds, hi \in GaugeBounds, unit \in {Absent, S("percent")},
        decimals \in {Absent, PyInt(0)}, thresholds \in {Absent, GaugeSteps} }

\* the names of the value columns of a frame
GaugeNames == <<S("cpu"), S("mem")>>

RECURSIVE GaugeFields(_, _)
GaugeFields(lasts, i) ==
    IF i > Len(lasts) THEN <<>>
    ELSE <<PyDict(<<Entry("name", GaugeNames[i]), Entry("type", S("number"))>>)>>
         \o GaugeFields(lasts, i + 1)

RECURSIVE GaugeColumns(_, _)
GaugeColumns(lasts, i) ==
    IF i > Len(lasts) THEN <<>>
    ELSE <<PyList(IF lasts[i] = Absent THEN <<>> ELSE <<PyInt(7), lasts[i]>>)>>
         \o GaugeColumns(lasts, i + 1)

\* a frame of one time column and one value column for each of the given last
\* values (Absent: the column is empty)
GaugeFrame(lasts) ==
    [fields |-> PyList(<<TimeField>> \o GaugeFields(lasts, 1)),
     values |-> PyList(<<PyList(<<PyInt(1000), PyInt(2000)>>)>> \o GaugeColumns(lasts, 1)),
     name |-> S("A")]

\* the last values of the columns of frames of two columns and of results of two frames
BarValues == {PyInt(42), PyFloat(5450), None, S("up"), Absent}

GaugeFrames ==
    {<<>>}
    \cup {<<GaugeFrame(<<value>>)>> : value \in GaugeValues}
    \cup {<<GaugeFrame(<<first, second>>)>> : first \in BarValues, second \in BarValues}
    \cup {<<GaugeFrame(<<first>>), GaugeFrame(<<second>>)>> :
            first \in BarValues, second \in BarValues}
    \cup {<<GaugeFrame(<<>>), GaugeFrame(<<PyInt(42), PyInt(150)>>)>>}

GaugeInputs ==
    /\ t_panel \in GaugePanels
    /\ t_frames \in GaugeFrames
    /\ t_kwargs = PyDict(<<Entry("label_key", S("name")), Entry("timezone", S("UTC"))>>)
    /\ t_op = "none"
    /\ t_out = NotCalled

\* a call of GaugeTransformer().transform(panel, query_result, **kwargs)
GaugeTransform ==
    /\ t_op = "none"
    /\ t_out = NotCalled
    /\ \E now \in Clock :
        \E returned \in GaugeTransformer_transform(t_panel, t_frames, now) :
            /\ t_op' = "GaugeTransformer.transform"
            /\ t_out' = returned
    /\ UNCHANGED <<t_panel, t_frames, t_kwargs>>
    /\ UNCHANGED <<substVars, queryVars, frameVars, resultVars, thresholdVars, registryVars,
                   cycleVars, timestampVars, limiterVars>>

\* a call of BarGaugeTransformer().transform(panel, query_result, **kwargs)
BarGaugeTransform ==
    /\ t_op = "none"
    /\ t_out = NotCalled
    /\ \E now \in Clock :
        \E returned \in BarGaugeTransformer_transform(t_panel, t_frames, now) :
            /\ t_op' = "BarGaugeTransformer.transform"
            /\ t_out' = returned
    /\ UNCHANGED <<t_panel, t_frames, t_kwargs>>
    /\ UNCHANGED <<substVars, queryVars, frameVars, resultVars, thresholdVars, registryVars,
                   cycleVars, timestampVars, limiterVars>>

GaugeNext == GaugeTransform \/ BarGaugeTransform

---------------------------------------------------------------------------
(* service/transformers/timeseries.py: _format_timestamp *)

\* a limb of an int, written with its leading zeros
PaddedLimb(n) ==
    <<Digits(n \div 100000)[1], Digits((n \div 10000) % 10)[1], Digits((n \div 1000) % 10)[1],
      Digits((n \div 100) % 10)[1], Digits((n \div 10) % 10)[1], Digits(n % 10)[1]>>

\* str(n) for an int kept as limbs
RECURSIVE PaddedLimbs(_)
PaddedLimbs(limbs) ==
    IF limbs = <<>> THEN <<>> ELSE PaddedLimb(Head(limbs)) \o PaddedLimbs(Tail(limbs))

LongDigits(limbs) == Digits(Head(limbs)) \o PaddedLimbs(Tail(limbs))

\* a > b for ints kept as limbs without leading zero limbs
RECURSIVE LimbsGreater(_, _)
LimbsGreater(a, b) ==
    IF Len(a) # Len(b) THEN Len(a) > Len(b)
    ELSE IF a = <<>> THEN FALSE
    ELSE IF Head(a) # Head(b) THEN Head(a) > Head(b)
    ELSE LimbsGreater(Tail(a), Tail(b))

\* 1_000_000_000_000
Milliseconds == <<1, 0, 0>>

\* the last second datetime can hold: 9999-12-31 23:59:59 UTC
MaxSeconds == <<253402, 300799>>

\* the limbs above which the seconds no longer fit the platform's time_t
MaxTimeLimbs == 4

\* ts / 1000 for ts above 10^12 and below 10^15: the whole seconds as two
\* limbs and the thousandths
Divided(limbs) ==
    [seconds |-> <<limbs[1] * 1000 + limbs[2] \div 1000,
                   (limbs[2] % 1000) * 1000 + limbs[3] \div 1000>>,
     thousandths |-> limbs[3] % 1000]

\* the decimals of the quotient as str(float) writes them
Thousandths(n) ==
    IF n = 0 THEN <<"0">>
    ELSE IF n % 100 = 0 THEN Digits(n \div 100)
    ELSE IF n % 10 = 0 THEN <<Digits(n \div 100)[1], Digits((n \div 10) % 10)[1]>>
    ELSE <<Digits(n \div 100)[1], Digits((n \div 10) % 10)[1], Digits(n % 10)[1]>>

\* strftime("%H:%M") of the second of the day
HourMinute(second) ==
    PyStr(<<Digits(second \div 36000)[1], Digits((second \div 3600) % 10)[1], ":",
            Digits((second % 3600) \div 600)[1], Digits(((second % 3600) \div 60) % 10)[1]>>)

\* the second of the day of an instant of two limbs of seconds
SecondOfDay(seconds) ==
    (100 * (((seconds[1] % 86400) * 496) % 864) + seconds[2]) % 86400

\* _format_timestamp(ts): the string returned or the exception raised
_format_timestamp(stamp) ==
    CASE stamp = None -> EmptyStr
      [] stamp.t = "int" -> HourMinute(stamp.v[1] % 86400)
      [] stamp.t = "float" -> HourMinute((stamp.v[1] \div 100) % 86400)
      [] stamp.t = "long" ->
            IF ~LimbsGreater(stamp.v, Milliseconds)
            THEN IF LimbsGreater(stamp.v, MaxSeconds) THEN PyStr(LongDigits(stamp.v))
                 ELSE HourMinute(SecondOfDay(stamp.v))
            ELSE IF Len(stamp.v) > MaxTimeLimbs THEN Raised("OverflowError")
            ELSE IF LimbsGreater(Divided(stamp.v).seconds, MaxSeconds)
                 THEN PyStr(LongDigits(Divided(stamp.v).seconds) \o <<".">>
                            \o Thousandths(Divided(stamp.v).thousandths))
                 ELSE HourMinute(SecondOfDay(Divided(stamp.v).seconds))
      [] OTHER -> stamp

---------------------------------------------------------------------------
(* Inputs of the timestamp checks *)

\* seconds and milliseconds around the midnights, the hours, the threshold
\* 10^12, the last second of the year 9999 and the range of time_t; null; text
Timestamps ==
    {None, S("2025-01-01T00:00:00Z"), EmptyStr}
    \cup {PyInt(n) : n \in {-86401, -86400, -1, 0, 59, 60, 3599, 3600, 43200, 86399, 86400,
                            1000000000, 1700000000, 2147483647}}
    \cup {PyFloat(h) : h \in {-50, 50, 6050, 8639999}}
    \cup {PyLong(<<q, r>>) : q \in {2148, 253402, 253403, 999999},
                            r \in {0, 300799, 300800, 999999}}
    \cup {PyLong(<<a, b, c>>) : a \in {1, 253, 254, 999}, b \in {0, 402300, 402301},
                               c \in {0, 1, 799999, 800000}}
    \cup {PyLong(<<1, 0, 0, 0, 0>>), PyLong(<<1, 0, 0, 0, 0, 0>>)}

TimestampInputs ==
    /\ ts \in Timestamps
    /\ ts_out = NotCalled

\* a call of _format_timestamp(ts)
FormatTimestamp ==
    /\ ts_out = NotCalled
    /\ ts_out' = _format_timestamp(ts)
    /\ UNCHANGED ts
    /\ UNCHANGED <<substVars, queryVars, frameVars, resultVars, thresholdVars, registryVars,
                   cycleVars, transformVars, limiterVars>>

TimestampNext == FormatTimestamp

---------------------------------------------------------------------------
(* service/transformers/timeseries.py: TimeSeriesTransformer *)

\* [v for v in values if isinstance(v, (int, float))]
NumericValues(values) == SelectSeq(values, IsNumber)

\* min(numeric_values): the first of the smallest entries
RECURSIVE MinOf(_, _)
MinOf(best, rest) ==
    IF rest = <<>> THEN best
    ELSE MinOf(IF Hundredths(Head(rest)) < Hundredths(best) THEN Head(rest) ELSE best, Tail(rest))

\* max(numeric_values): the first of the largest entries
RECURSIVE MaxOf(_, _)
MaxOf(best, rest) ==
    IF rest = <<>> THEN best
    ELSE MaxOf(IF Hundredths(Head(rest)) > Hundredths(best) THEN Head(rest) ELSE best, Tail(rest))

\* sum(numeric_values), in hundredths
RECURSIVE SumOf(_)
SumOf(numbers) == IF numbers = <<>> THEN 0 ELSE Hundredths(Head(numbers)) + SumOf(Tail(numbers))

\* labels.get(label_key) or field.get("name", "Value")
SeriesName(field, label_key) ==
    PyOr(GetOrNone(GetOr(field, "labels", PyDict(<<>>)), label_key.v[1]),
         GetOr(field, "name", S("Value")))

\* whether the loop over zip(time_values, values) meets a timestamp on which
\* _format_timestamp raises
RECURSIVE PointsRaise(_, _)
PointsRaise(time_values, values) ==
    IF time_values = <<>> \/ values = <<>> THEN FALSE
    ELSE \/ Head(values) # None /\ _format_timestamp(Head(time_values)).t = "raised"
         \/ PointsRaise(Tail(time_values), Tail(values))

\* the points the loop over zip(time_values, values) appends
RECURSIVE SeriesPoints(_, _, _)
SeriesPoints(time_values, values, name) ==
    IF time_values = <<>> \/ values = <<>> THEN <<>>
    ELSE IF Head(values) = None THEN SeriesPoints(Tail(time_values), Tail(values), name)
    ELSE <<PyDict(<<Entry("time", _format_timestamp(Head(time_values))),
                    Entry("value", Head(values)), Entry("label", name)>>)>>
         \o SeriesPoints(Tail(time_values), Tail(values), name)

\* round(avg_val, 2) in hundredths: the quotient is a float, so that at an
\* exact half of a hundredth either neighbour is an outcome
Averages(numbers) == Rounded(SumOf(numbers), Len(numbers))

\* _process_series(field, time_values, values, panel, label_key): the results
\* it can give, each the metadata and the points, or the exception raised
_process_series(field, time_values, values, p, label_key) ==
    LET name == SeriesName(field, label_key)
        numeric_values == NumericValues(values)
        current == IF numeric_values # <<>> THEN Last(numeric_values) ELSE None
        points == SeriesPoints(time_values, values, name)
        Metadata(avg) ==
            PyDict(<<Entry("name", name), Entry("current", current),
                     Entry("formatted_current",
                           _format_value(current, get_unit(p), get_decimals(p))),
                     Entry("min", IF numeric_values # <<>>
                                  THEN MinOf(Head(numeric_values), Tail(numeric_values))
                                  ELSE None),
                     Entry("max", IF numeric_values # <<>>
                                  THEN MaxOf(Head(numeric_values), Tail(numeric_values))
                                  ELSE None),
                     Entry("avg", avg), Entry("point_count", PyInt(Len(points)))>>)
    IN IF PointsRaise(time_values, values) THEN {Raised("OverflowError")}
       ELSE IF numeric_values = <<>> THEN {[metadata |-> Metadata(None), points |-> points]}
       ELSE {[metadata |-> Metadata(PyFloat(avg)), points |-> points] :
                avg \in Averages(numeric_values)}

\* the inner loop over enumerate(frame.fields) from position n on: the lists
\* of series results it can collect
RECURSIVE SeriesOfFields(_, _, _, _)
SeriesOfFields(fr, n, p, label_key) ==
    IF n > Len(fr.fields.v) THEN {<<>>}
    ELSE IF \/ GetOrNone(fr.fields.v[n], "type") = S("time")
            \/ FieldNameAt(fr, n) \in time_names
            \/ n > Len(fr.values.v)
         THEN SeriesOfFields(fr, n + 1, p, label_key)
    ELSE { <<series_data>> \o rest :
             series_data \in _process_series(fr.fields.v[n], get_time_values(fr).v,
                                             fr.values.v[n].v, p, label_key),
             rest \in SeriesOfFields(fr, n + 1, p, label_key) }

\* the loop over query_result.frames
RECURSIVE SeriesOfFrames(_, _, _)
SeriesOfFrames(frames, p, label_key) ==
    IF frames = <<>> THEN {<<>>}
    ELSE { series \o rest : series \in SeriesOfFields(Head(frames), 1, p, label_key),
                            rest \in SeriesOfFrames(Tail(frames), p, label_key) }

\* series_list and all_chart_data
RECURSIVE SeriesList(_)
SeriesList(results) ==
    IF results = <<>> THEN <<>> ELSE <<Head(results).metadata>> \o SeriesList(Tail(results))

RECURSIVE AllChartData(_)
AllChartData(results) ==
    IF results = <<>> THEN <<>> ELSE Head(results).points \o AllChartData(Tail(results))

\* what transform returns once every series is processed
SeriesVariables(base, results) ==
    LET series_list == SeriesList(results)
    IN PyDict(base.v \o <<Entry("series", PyList(series_list)),
                           Entry("chart_data", PyList(AllChartData(results)))>>
              \o IF series_list # <<>>
                 THEN <<Entry("current_value", Get(series_list[1].v, "current")),
                        Entry("formatted_value", Get(series_list[1].v, "formatted_current")),
                        Entry("min_value", Get(series_list[1].v, "min")),
                        Entry("max_value", Get(series_list[1].v, "max")),
                        Entry("avg_value", Get(series_list[1].v, "avg"))>>
                 ELSE <<>>)

\* TimeSeriesTransformer.transform(panel, query_result, **kwargs): the mappings
\* it can return, or the exception raised
TimeSeriesTransformer_transform(p, frames, kwargs, now) ==
    LET base == _base_variables(InstanceOf("TimeSeriesTransformer", LoadedAttrs), <<p>>, now)
        label_key == GetOr(kwargs, "label", S("name"))
    IN { IF \E k \in 1..Len(results) : results[k] = Raised("OverflowError")
         THEN Raised("OverflowError")
         ELSE SeriesVariables(base, results) :
         results \in SeriesOfFrames(frames, p, label_key) }

---------------------------------------------------------------------------
(* Inputs of the time-series checks *)

\* the most entries of a value column
MaxPoints == 3

SeriesEntries == {PyInt(1), PyFloat(225), None, S("down")}

RECURSIVE SeriesColumns(_)
SeriesColumns(n) ==
    IF n = 0 THEN {<<>>}
    ELSE SeriesColumns(n - 1)
         \cup {<<entry>> \o column : entry \in SeriesEntries,
                                      column \in {c \in SeriesColumns(n - 1) : Len(c) = n - 1}}

\* time columns: none, seconds, milliseconds, one shorter and one longer than
\* the values, text and null entries, an instant beyond time_t
SeriesTimes ==
    { <<>>, <<PyInt(60), PyInt(120), PyInt(180)>>, <<PyInt(60), PyInt(120)>>,
      <<PyLong(<<1700, 0, 0>>), PyLong(<<1700, 0, 60000>>), PyLong(<<1700, 0, 120000>>),
        PyLong(<<1700, 0, 180000>>)>>,
      <<None, S("noon"), PyInt(0)>>,
      <<PyInt(60), PyLong(<<1, 0, 0, 0, 0, 0>>), PyInt(180)>> }

SeriesLabels ==
    { Absent, PyDict(<<>>), PyDict(<<Entry("instance", S("web-1"))>>),
      PyDict(<<Entry("name", S("api"))>>),
      PyDict(<<Entry("instance", S("web-1")), Entry("name", S("api"))>>),
      PyDict(<<Entry("name", EmptyStr)>>) }

SeriesFields ==
    { PyDict(Present(<<Entry("name", name), Entry("type", S("number")),
                       Entry("labels", labels)>>)) :
        name \in {Absent, S("up")}, labels \in SeriesLabels }

SeriesFrame(times, fields, columns) ==
    [fields |-> PyList(<<TimeField>> \o fields),
     values |-> PyList(<<PyList(times)>> \o columns),
     name |-> S("A")]

PlainField == PyDict(<<Entry("name", S("up")), Entry("type", S("number"))>>)

\* one frame with every value column, one frame with every field, a frame
\* with a second field, time-named or not, and results of two frames, the
\* second with a field that has no column
SeriesFrames ==
    {<<>>}
    \cup {<<SeriesFrame(times, <<PlainField>>, <<PyList(column)>>)>> :
            times \in SeriesTimes, column \in SeriesColumns(MaxPoints)}
    \cup {<<SeriesFrame(times, <<field>>, <<PyList(column)>>)>> :
            times \in SeriesTimes, field \in SeriesFields,
            column \in {<<PyInt(1), PyInt(2), PyInt(2)>>, <<None, S("down")>>}}
    \cup {<<SeriesFrame(times, <<field, other>>, <<PyList(<<None, PyInt(4)>>), PyList(column)>>)>> :
            times \in SeriesTimes, field \in SeriesFields,
            other \in {PyDict(<<Entry("name", S("Time"))>>), PyDict(<<Entry("name", S("load"))>>)},
            column \in {<<PyInt(1), None>>, <<>>}}
    \cup {<<SeriesFrame(<<PyInt(60)>>, <<field>>, <<PyList(<<PyInt(1)>>)>>),
            SeriesFrame(times, <<field, field>>, <<PyList(<<PyInt(4), None, PyFloat(250)>>)>>)>> :
            times \in SeriesTimes, field \in SeriesFields}

\* the options as api.py and main.py pass them
SeriesOptions ==
    { PyDict(<<Entry("label_key", key), Entry("timezone", S("UTC"))>>) :
        key \in {S("name"), S("instance")} }
    \cup { PyDict(<<Entry("label_key", key)>>) : key \in {S("name"), S("instance")} }

SeriesPanel ==
    [ title |-> S("CPU"), description |-> EmptyStr, transformations |-> PyList(<<>>),
      field_config |-> PyDict(<<Entry("defaults", PyDict(<<Entry("unit", S("percent"))>>))>>) ]

SeriesInputs ==
    /\ t_panel = SeriesPanel
    /\ t_frames \in SeriesFrames
    /\ t_kwargs \in SeriesOptions
    /\ t_op = "none"
    /\ t_out = NotCalled

\* a call of TimeSeriesTransformer().transform(panel, query_result, **kwargs)
TimeSeriesTransform ==
    /\ t_op = "none"
    /\ t_out = NotCalled
    /\ \E now \in Clock :
        \E returned \in TimeSeriesTransformer_transform(t_panel, t_frames, t_kwargs, now) :
            /\ t_op' = "TimeSeriesTransformer.transform"
            /\ t_out' = returned
    /\ UNCHANGED <<t_panel, t_frames, t_kwargs>>
    /\ UNCHANGED <<substVars, queryVars, frameVars, resultVars, thresholdVars, registryVars,
                   cycleVars, timestampVars, limiterVars>>

SeriesNext == TimeSeriesTransform

---------------------------------------------------------------------------
(* service/grafana/models.py: the organize transformation;
   service/transformers/table.py: TableTransformer *)

\* In this part a dict of names (labels, excludeByName, renameByName) is keyed
\* by the characters of the name, so that names can be sorted and title-cased.


\* if is_excluded
IsExcluded(val) == IF val.t = "bool" THEN val.v[1] ELSE TruthyVal(val)

\* the options of the transformations with id "organize", in order
RECURSIVE OrganizeOptions(_)
OrganizeOptions(transformations) ==
    IF transformations = <<>> THEN <<>>
    ELSE (IF GetOrNone(Head(transformations), "id") = S("organize")
          THEN <<GetOr(Head(transformations), "options", PyDict(<<>>))>> ELSE <<>>)
         \o OrganizeOptions(Tail(transformations))

\* the names one excludeByName mapping adds
ExcludedBy(option) ==
    LET excludeByName == GetOr(option, "excludeByName", PyDict(<<>>)).v
    IN {excludeByName[j].k : j \in {i \in 1..Len(excludeByName) : IsExcluded(excludeByName[i].v)}}

\* Panel.get_excluded_fields(): a set of names
get_excluded_fields(p) ==
    LET options == OrganizeOptions(p.transformations.v)
    IN UNION {ExcludedBy(options[i]) : i \in 1..Len(options)}

\* renames.update(entries)
RECURSIVE DictUpdate(_, _)
DictUpdate(renames, entries) ==
    IF entries = <<>> THEN renames
    ELSE DictUpdate(DictSet(renames, Head(entries).k, Head(entries).v), Tail(entries))

RECURSIVE RenamesFrom(_, _)
RenamesFrom(options, renames) ==
    IF options = <<>> THEN renames
    ELSE RenamesFrom(Tail(options),
                     DictUpdate(renames, GetOr(Head(options), "renameByName", PyDict(<<>>)).v))

\* Panel.get_field_renames(): the entries of the mapping
get_field_renames(p) == RenamesFrom(OrganizeOptions(p.transformations.v), <<>>)

\* the characters of the names and cells, in code point order
CodePoints ==
    <<" ", "-", ".", "0", "1", "2", "3", "4", "5", "6", "7", "8", "9">> \o UpperCase
    \o <<"_">> \o LowerCase

Ord(ch) == CHOOSE i \in 1..Len(CodePoints) : CodePoints[i] = ch

\* a < b on strings
RECURSIVE StrLess(_, _)
StrLess(a, b) ==
    IF b = <<>> THEN FALSE
    ELSE IF a = <<>> THEN TRUE
    ELSE IF Head(a) # Head(b) THEN Ord(Head(a)) < Ord(Head(b))
    ELSE StrLess(Tail(a), Tail(b))

\* sorted(names)
RECURSIVE Sorted(_)
Sorted(names) ==
    IF names = {} THEN <<>>
    ELSE LET first == CHOOSE a \in names : \A b \in names \ {a} : StrLess(a, b)
         IN <<first>> \o Sorted(names \ {first})

UpperChar(ch) ==
    IF \E i \in 1..Len(LowerCase) : LowerCase[i] = ch
    THEN UpperCase[CHOOSE i \in 1..Len(LowerCase) : LowerCase[i] = ch]
    ELSE ch

IsLetter(ch) ==
    \E i \in 1..Len(LowerCase) : LowerCase[i] = ch \/ UpperCase[i] = ch

\* str.title(): a letter after a letter in lower case, any other letter in upper case
RECURSIVE TitleFrom(_, _)
TitleFrom(chars, after_letter) ==
    IF chars = <<>> THEN <<>>
    ELSE <<IF after_letter THEN LowerChar(Head(chars)) ELSE UpperChar(Head(chars))>>
         \o TitleFrom(Tail(chars), IsLetter(Head(chars)))

\* key.replace("_", " ")
RECURSIVE Spaced(_)
Spaced(chars) ==
    IF chars = <<>> THEN <<>>
    ELSE <<IF Head(chars) = "_" THEN " " ELSE Head(chars)>> \o Spaced(Tail(chars))

\* _format_column_name(key)
_format_column_name(key) == PyStr(TitleFrom(Spaced(key), FALSE))

\* f"{value:.2f}" of the float of h hundredths
TwoDecimals(h) ==
    LET m == IF h < 0 THEN -h ELSE h
    IN (IF h < 0 THEN <<"-">> ELSE <<>>) \o Digits(m \div 100) \o <<".">>
       \o Digits((m % 100) \div 10) \o Digits(m % 10)

\* _format_cell(value)
_format_cell(value) ==
    CASE value = None -> EmptyStr
      [] value.t = "float" ->
            IF value.v[1] % 100 = 0 THEN PyStr(Str(PyInt(value.v[1] \div 100)))
            ELSE PyStr(TwoDecimals(value.v[1]))
      [] value.t = "bool" -> IF value.v[1] THEN PyStr(<<"Y", "e", "s">>) ELSE PyStr(<<"N", "o">>)
      [] OTHER -> PyStr(Str(value))

\* _is_prometheus_table_format(query_result)
_is_prometheus_table_format(frames) ==
    /\ frames # <<>>
    /\ \E n \in 1..Len(frames[1].fields.v) :
        /\ GetOrNone(frames[1].fields.v[n], "type") # S("time")
        /\ TruthyVal(GetOrNone(frames[1].fields.v[n], "labels"))

\* a slip: the labels alone decide
TakesPrometheusPathAnyCount(frames) == _is_prometheus_table_format(frames)

\* len(query_result.frames) > 1 and self._is_prometheus_table_format(query_result)
TakesPrometheusPath(frames) == Len(frames) > 1 /\ _is_prometheus_table_format(frames)

\* the columns of the standard table: the included names, renamed
RECURSIVE StandardColumns(_, _, _)
StandardColumns(names, excluded_fields, field_renames) ==
    IF names = <<>> THEN <<>>
    ELSE (IF Head(names).v \in excluded_fields THEN <<>>
          ELSE <<IF HasKey(field_renames, Head(names).v)
                 THEN Get(field_renames, Head(names).v) ELSE Head(names)>>)
         \o StandardColumns(Tail(names), excluded_fields, field_renames)

\* the row at row_idx: a cell for each included column from position n on
RECURSIVE StandardRow(_, _, _, _, _)
StandardRow(fr, names, n, row_idx, excluded_fields) ==
    IF n > Len(names) THEN <<>>
    ELSE (IF names[n].v \in excluded_fields THEN <<>>
          ELSE IF n <= Len(fr.values.v) /\ row_idx <= Len(fr.values.v[n].v)
               THEN <<_format_cell(fr.values.v[n].v[row_idx])>>
               ELSE <<EmptyStr>>)
         \o StandardRow(fr, names, n + 1, row_idx, excluded_fields)

\* a slip: as many rows as the longest column has
NumRowsOfLongest(fr) ==
    IF fr.values.v = <<>> THEN 0
    ELSE CHOOSE n \in 0..1000 :
            /\ \A i \in 1..Len(fr.values.v) : Len(fr.values.v[i].v) <= n
            /\ \E i \in 1..Len(fr.values.v) : Len(fr.values.v[i].v) = n

\* len(frame.values[0]) if frame.values[0] else 0, and no row without columns
NumRows(fr) == IF fr.values.v = <<>> THEN 0 ELSE Len(fr.values.v[1].v)

RECURSIVE StandardRows(_, _, _, _)
StandardRows(fr, names, row_idx, excluded_fields) ==
    IF row_idx > NumRows(fr) THEN <<>>
    ELSE <<PyList(StandardRow(fr, names, 1, row_idx, excluded_fields))>>
         \o StandardRows(fr, names, row_idx + 1, excluded_fields)

\* _transform_standard_table(query_result, excluded_fields, field_renames)
_transform_standard_table(frames, excluded_fields, field_renames) ==
    LET all_field_names == get_field_names(frames[1])
    IN [columns |-> StandardColumns(all_field_names, excluded_fields, field_renames),
        rows |-> StandardRows(frames[1], all_field_names, 1, excluded_fields)]

w_service_name == <<"s","e","r","v","i","c","e","_","n","a","m","e">>
w_name == <<"n","a","m","e">>
w_instance == <<"i","n","s","t","a","n","c","e">>
w_job == <<"j","o","b">>
w_state == <<"s","t","a","t","e">>
w_internal == <<"_","_","n","a","m","e","_","_">>
w_Value == <<"V","a","l","u","e">>
w_value == <<"v","a","l","u","e">>

priority_cols == <<w_service_name, w_name, w_instance, w_job, w_state>>

\* the label keys of the fields of a frame whose type is not "time"
FrameLabelKeys(fr) ==
    UNION { {GetOr(fr.fields.v[n], "labels", PyDict(<<>>)).v[j].k :
                j \in 1..Len(GetOr(fr.fields.v[n], "labels", PyDict(<<>>)).v)} :
            n \in {m \in 1..Len(fr.fields.v) : GetOrNone(fr.fields.v[m], "type") # S("time")} }

\* a slip: the keys in sorted order only
OrderedKeysSorted(label_keys) == Sorted(label_keys)

\* ordered_keys: the priority columns that are label keys, then the other
\* label keys in sorted order
OrderedKeys(label_keys) ==
    SelectSeq(priority_cols, LAMBDA key : key \in label_keys)
    \o Sorted(label_keys \ {priority_cols[i] : i \in 1..Len(priority_cols)})

\* the column of a key: its rename, or the key title-cased
RECURSIVE LabelColumns(_, _)
LabelColumns(ordered_keys, field_renames) ==
    IF ordered_keys = <<>> THEN <<>>
    ELSE <<IF HasKey(field_renames, Head(ordered_keys))
           THEN Get(field_renames, Head(ordered_keys))
           ELSE _format_column_name(Head(ordered_keys))>>
         \o LabelColumns(Tail(ordered_keys), field_renames)

\* the position of the first field of a frame whose type is not "time", 0 if none
ValueIdx(fr) ==
    IF \E n \in 1..Len(fr.fields.v) : GetOrNone(fr.fields.v[n], "type") # S("time")
    THEN CHOOSE n \in 1..Len(fr.fields.v) :
            /\ GetOrNone(fr.fields.v[n], "type") # S("time")
            /\ \A m \in 1..(n - 1) : GetOrNone(fr.fields.v[m], "type") = S("time")
    ELSE 0

\* a slip: a cell only for the keys the labels have
RECURSIVE LabelCellsOfOwnKeys(_, _)
LabelCellsOfOwnKeys(labels, ordered_keys) ==
    IF ordered_keys = <<>> THEN <<>>
    ELSE (IF HasKey(labels.v, Head(ordered_keys)) THEN <<Get(labels.v, Head(ordered_keys))>>
          ELSE <<>>)
         \o LabelCellsOfOwnKeys(labels, Tail(ordered_keys))

\* [labels.get(key, "") for key in ordered_keys]
RECURSIVE LabelCells(_, _)
LabelCells(labels, ordered_keys) ==
    IF ordered_keys = <<>> THEN <<>>
    ELSE <<GetOr(labels, Head(ordered_keys), EmptyStr)>> \o LabelCells(labels, Tail(ordered_keys))

\* the row of a frame that has a value field
PrometheusRow(fr, ordered_keys, include_value) ==
    LET value_idx == ValueIdx(fr)
        labels == GetOr(fr.fields.v[value_idx], "labels", PyDict(<<>>))
        value == IF value_idx <= Len(fr.values.v) /\ fr.values.v[value_idx].v # <<>>
                 THEN _format_cell(Last(fr.values.v[value_idx].v))
                 ELSE EmptyStr
    IN PyList(LabelCells(labels, ordered_keys) \o IF include_value THEN <<value>> ELSE <<>>)

\* the loop over query_result.frames: a row for each frame with a value field
RECURSIVE PrometheusRows(_, _, _)
PrometheusRows(frames, ordered_keys, include_value) ==
    IF frames = <<>> THEN <<>>
    ELSE (IF ValueIdx(Head(frames)) = 0 THEN <<>>
          ELSE <<PrometheusRow(Head(frames), ordered_keys, include_value)>>)
         \o PrometheusRows(Tail(frames), ordered_keys, include_value)

\* a slip: the cells compared as they are
SortKeyAsWritten(row, sort_idx) == row.v[sort_idx].v

\* r[sort_idx].lower() if r[sort_idx] else ""
SortKey(row, sort_idx) == Lower(row.v[sort_idx].v)

\* the place of a row among sorted rows: after every row whose key is not greater
RECURSIVE Inserted(_, _, _)
Inserted(row, sorted, sort_idx) ==
    IF sorted = <<>> THEN <<row>>
    ELSE IF StrLess(SortKey(row, sort_idx), SortKey(Head(sorted), sort_idx))
         THEN <<row>> \o sorted
    ELSE <<Head(sorted)>> \o Inserted(row, Tail(sorted), sort_idx)

\* rows.sort(key=...): a stable sort
RECURSIVE SortedRows(_, _, _)
SortedRows(rows, sorted, sort_idx) ==
    IF rows = <<>> THEN sorted
    ELSE SortedRows(Tail(rows), Inserted(Head(rows), sorted, sort_idx), sort_idx)

\* _transform_prometheus_table(query_result, excluded_fields, field_renames, **kwargs)
_transform_prometheus_table(frames, excluded_fields, field_renames, kwargs) ==
    LET label_key == GetOr(kwargs, "label_key", PyStr(w_service_name)).v
        all_label_keys == UNION {FrameLabelKeys(frames[i]) : i \in 1..Len(frames)}
        ordered_keys == OrderedKeys((all_label_keys \ {w_internal}) \ excluded_fields)
        include_value == w_Value \notin excluded_fields /\ w_value \notin excluded_fields
        value_col_name == IF HasKey(field_renames, w_Value) THEN Get(field_renames, w_Value)
                          ELSE IF HasKey(field_renames, w_value) THEN Get(field_renames, w_value)
                          ELSE PyStr(w_Value)
        rows == PrometheusRows(frames, ordered_keys, include_value)
    IN [columns |-> LabelColumns(ordered_keys, field_renames)
                    \o IF include_value THEN <<value_col_name>> ELSE <<>>,
        rows |-> IF \E i \in 1..Len(ordered_keys) : ordered_keys[i] = label_key
                 THEN SortedRows(rows, <<>>,
                                 CHOOSE i \in 1..Len(ordered_keys) : ordered_keys[i] = label_key)
                 ELSE rows]

\* TableTransformer.transform(panel, query_result, **kwargs)
TableTransformer_transform(p, frames, kwargs, now) ==
    LET base == _base_variables(InstanceOf("TableTransformer", LoadedAttrs), <<p>>, now)
        table == IF frames = <<>> THEN [columns |-> <<>>, rows |-> <<>>]
                 ELSE IF TakesPrometheusPath(frames)
                 THEN _transform_prometheus_table(frames, get_excluded_fields(p),
                                                  get_field_renames(p), kwargs)
                 ELSE _transform_standard_table(frames, get_excluded_fields(p),
                                                get_field_renames(p))
    IN PyDict(base.v \o <<Entry("columns", PyList(table.columns)),
                           Entry("rows", PyList(table.rows)),
                           Entry("row_count", PyInt(Len(table.rows)))>>)

---------------------------------------------------------------------------
(* Inputs of the table checks *)

\* the most frames of a query result
MaxFrames == 2

w_Time == <<"T","i","m","e">>
w_host == <<"h","o","s","t">>
w_cpu == <<"c","p","u">>
w_app == <<"a","p","p">>
w_zone == <<"z","o","n","e">>
w_alpha == <<"a","l","p","h","a">>
w_beta == <<"b","e","t","a">>
w_Beta == <<"B","e","t","a">>
w_web == <<"w","e","b","-","1">>

TableTimeField == PyDict(<<Entry("name", PyStr(w_Time)), Entry("type", S("time"))>>)
HostField == PyDict(<<Entry("name", PyStr(w_host)), Entry("type", S("string"))>>)

\* a value field with the given labels (Absent: without labels)
LabelledField(chars, labels) ==
    PyDict(Present(<<Entry("name", PyStr(chars)), Entry("type", S("number")),
                     Entry("labels", labels)>>))

\* label maps: none, empty, with upper and lower case values, with the
\* internal __name__, with priority keys and other keys
TableLabels ==
    { Absent, PyDict(<<>>),
      PyDict(<<Entry(w_name, PyStr(w_beta))>>),
      PyDict(<<Entry(w_name, PyStr(w_Beta)), Entry(w_app, PyStr(w_alpha))>>),
      PyDict(<<Entry(w_internal, PyStr(w_cpu)), Entry(w_instance, PyStr(w_web)),
               Entry(w_name, PyStr(w_alpha))>>),
      PyDict(<<Entry(w_zone, PyStr(w_beta)), Entry(w_app, PyStr(w_Beta)),
               Entry(w_job, PyStr(w_host))>>),
      PyDict(<<Entry(w_name, PyStr(w_alpha)), Entry(w_service_name, PyStr(w_Beta))>>) }

TableFrame(fields, columns) == [fields |-> PyList(fields), values |-> PyList(columns), name |-> S("A")]

\* the frames of an instant query: a time field and a labelled value field;
\* one with an empty value column, one without it, one of a time field alone,
\* one of two labelled value fields
LabelledFrames ==
    { TableFrame(<<TableTimeField, LabelledField(w_Value, labels)>>,
                 <<PyList(<<PyInt(60), PyInt(120)>>), PyList(<<PyInt(1), PyFloat(250)>>)>>) :
        labels \in TableLabels }
    \cup { TableFrame(<<TableTimeField, LabelledField(w_Value, PyDict(<<Entry(w_name, PyStr(w_web))>>))>>,
                      <<PyList(<<>>), PyList(<<>>)>>),
           TableFrame(<<TableTimeField, LabelledField(w_Value, PyDict(<<Entry(w_app, PyStr(w_web))>>))>>,
                      <<PyList(<<PyInt(60)>>)>>),
           TableFrame(<<TableTimeField>>, <<PyList(<<PyInt(60)>>)>>),
           TableFrame(<<LabelledField(w_cpu, PyDict(<<Entry(w_name, PyStr(w_host))>>)),
                        LabelledField(w_Value, PyDict(<<Entry(w_state, PyStr(w_alpha))>>))>>,
                      <<PyList(<<PyInt(3)>>), PyList(<<PyInt(5)>>)>>) }

\* the frames of a table query: named, labelled and nameless fields, with
\* columns longer and shorter than the first, a missing column, no column
TabularFrames ==
    { TableFrame(fields, <<PyList(first), PyList(second)>> \o third) :
        fields \in { <<TableTimeField, HostField, LabelledField(w_cpu, Absent)>>,
                     <<HostField, LabelledField(w_cpu, PyDict(<<Entry(w_name, PyStr(w_beta))>>)),
                       PyDict(<<Entry("type", S("number"))>>)>> },
        first \in { <<>>, <<PyInt(60)>>, <<PyInt(60), PyStr(w_web)>> },
        second \in { <<PyStr(w_alpha)>>, <<PyStr(w_Beta), None, PyStr(w_beta)>> },
        third \in { <<>>, <<PyList(<<PyFloat(250), None>>)>>,
                    <<PyList(<<PyFloat(200), PyBool(TRUE), PyInt(3)>>)>> } }
    \cup { TableFrame(<<HostField, LabelledField(w_cpu, Absent)>>, <<>>) }

RECURSIVE LaterFrames(_)
LaterFrames(n) ==
    IF n = 0 THEN {<<>>}
    ELSE LaterFrames(n - 1)
         \cup {<<fr>> \o rest : fr \in LabelledFrames,
                                rest \in {r \in LaterFrames(n - 1) : Len(r) = n - 1}}

\* no frame; one frame; a tabular frame followed by a labelled one; labelled
\* frames up to MaxFrames
TableFrames ==
    {<<>>}
    \cup {<<first>> : first \in LabelledFrames \cup TabularFrames}
    \cup {<<first, TableFrame(<<TableTimeField, LabelledField(w_Value, PyDict(<<Entry(w_name, PyStr(w_beta))>>))>>,
                              <<PyList(<<PyInt(60)>>), PyList(<<PyInt(1)>>)>>)>> :
            first \in TabularFrames}
    \cup {<<first>> \o rest : first \in LabelledFrames,
                              rest \in LaterFrames(MaxFrames - 1) \ {<<>>}}

Organize(excludeByName, renameByName) ==
    PyDict(<<Entry("id", S("organize")),
             Entry("options", PyDict(Present(<<Entry("excludeByName", excludeByName),
                                               Entry("renameByName", renameByName)>>)))>>)

\* the transformations of a panel: none, one organize, an organize among
\* others, two organizes that overlap, an organize without options
TableTransformations ==
    { <<>>,
      <<Organize(PyDict(<<Entry(w_Time, PyBool(TRUE)), Entry(w_app, PyBool(TRUE)),
                          Entry(w_cpu, PyBool(FALSE))>>),
                 PyDict(<<Entry(w_host, PyStr(w_Beta)), Entry(w_name, PyStr(w_zone))>>))>>,
      <<Organize(PyDict(<<Entry(w_Value, PyBool(TRUE))>>), Absent),
        PyDict(<<Entry("id", S("filterByValue")),
                 Entry("options", PyDict(<<Entry("excludeByName",
                                                  PyDict(<<Entry(w_host, PyBool(TRUE))>>))>>))>>)>>,
      <<Organize(PyDict(<<Entry(w_name, PyBool(TRUE))>>),
                 PyDict(<<Entry(w_Value, PyStr(w_cpu)), Entry(w_host, PyStr(w_alpha))>>)),
        Organize(PyDict(<<Entry(w_name, PyBool(FALSE)), Entry(w_zone, PyBool(TRUE))>>),
                 PyDict(<<Entry(w_host, PyStr(w_beta)), Entry(w_value, PyStr(w_app))>>))>>,
      <<PyDict(<<Entry("id", S("organize"))>>)>>,
      <<Organize(PyDict(<<Entry(w_value, PyBool(TRUE)), Entry(w_instance, PyBool(TRUE))>>),
                 PyDict(<<Entry(w_value, PyStr(w_app))>>))>> }

TablePanels ==
    { [ title |-> S("Services"), description |-> EmptyStr,
        transformations |-> PyList(transformations), field_config |-> PyDict(<<>>) ] :
        transformations \in TableTransformations }

\* the options as api.py and main.py pass them
TableOptions ==
    { PyDict(<<Entry("label_key", PyStr(w_name)), Entry("timezone", S("UTC"))>>),
      PyDict(<<Entry("label_key", PyStr(w_app))>>),
      PyDict(<<Entry("label_key", PyStr(w_state)), Entry("timezone", S("UTC"))>>) }

TableInputs ==
    /\ t_panel \in TablePanels
    /\ t_frames \in TableFrames
    /\ t_kwargs \in TableOptions
    /\ t_op = "none"
    /\ t_out = NotCalled

\* a call of TableTransformer().transform(panel, query_result, **kwargs)
TableTransform ==
    /\ t_op = "none"
    /\ t_out = NotCalled
    /\ \E now \in Clock :
        /\ t_op' = "TableTransformer.transform"
        /\ t_out' = TableTransformer_transform(t_panel, t_frames, t_kwargs, now)
    /\ UNCHANGED <<t_panel, t_frames, t_kwargs>>
    /\ UNCHANGED <<substVars, queryVars, frameVars, resultVars, thresholdVars, registryVars,
                   cycleVars, timestampVars, limiterVars>>

TableNext == TableTransform

---------------------------------------------------------------------------
(* Inputs of the DataFrame accessor checks *)

\* a field named Time that is not typed as a time field
UpperTimeField == PyDict(<<Entry("name", S("Time")), Entry("type", S("number"))>>)

AccessFieldKinds == {TimeField, NamedTimeField, UpperTimeField, CpuField}

\* the column at position i: empty or two small values, and for the first
\* column also epoch seconds and the largest value that is not taken for one
AccessColumnKinds(i) ==
    ColumnKinds(i) \cup
    (IF i = 1
     THEN { PyList(<<PyInt(1700000000), PyInt(1700000060)>>), PyList(<<PyInt(1000000000)>>) }
     ELSE {})

RECURSIVE AccessColumnLists(_)
AccessColumnLists(n) ==
    IF n <= 0 THEN {<<>>}
    ELSE {Append(cols, c) : cols \in AccessColumnLists(n - 1), c \in AccessColumnKinds(n)}

\* frames with up to MaxFields fields, and a column for every field or for all but the last
AccessFrames ==
    UNION { { [fields |-> PyList(fs), values |-> PyList(cols), name |-> S("A")] :
                cols \in AccessColumnLists(Len(fs)) \cup AccessColumnLists(Len(fs) - 1) } :
            fs \in ListsOf(AccessFieldKinds, MaxFields) }

\* t_out keeps what each accessor returned, NotCalled before its call
AccessInputs ==
    /\ t_frames \in {<<fr>> : fr \in AccessFrames}
    /\ t_panel = Idle
    /\ t_kwargs = Idle
    /\ t_op = "none"
    /\ t_out = [get_time_values |-> NotCalled, get_value_fields |-> NotCalled]

\* a call of DataFrame.get_time_values()
GetTimeValues ==
    /\ t_out.get_time_values = NotCalled
    /\ t_op' = "get_time_values"
    /\ t_out' = [t_out EXCEPT !.get_time_values = get_time_values(t_frames[1])]
    /\ UNCHANGED <<t_panel, t_frames, t_kwargs>>
    /\ UNCHANGED <<substVars, queryVars, frameVars, resultVars, thresholdVars, registryVars,
                   cycleVars, timestampVars, limiterVars>>

\* a call of DataFrame.get_value_fields()
GetValueFields ==
    /\ t_out.get_value_fields = NotCalled
    /\ t_op' = "get_value_fields"
    /\ t_out' = [t_out EXCEPT !.get_value_fields = PyList(get_value_fields(t_frames[1]))]
    /\ UNCHANGED <<t_panel, t_frames, t_kwargs>>
    /\ UNCHANGED <<substVars, queryVars, frameVars, resultVars, thresholdVars, registryVars,
                   cycleVars, timestampVars, limiterVars>>

AccessNext == GetTimeValues \/ GetValueFields

---------------------------------------------------------------------------
(* service/grafana/models.py: Panel.datasource_uid *)

\* the loop over the targets: the uid of the first target whose datasource is
\* a dict with a truthy uid
RECURSIVE FirstTargetUid(_)
FirstTargetUid(targets) ==
    IF targets = <<>> THEN None
    ELSE LET ds == GetOr(Head(targets), "datasource", PyDict(<<>>)) IN
         IF ds.t = "dict" /\ TruthyVal(GetOrNone(ds, "uid")) THEN Get(ds.v, "uid")
         ELSE FirstTargetUid(Tail(targets))

\* Panel.datasource_uid
datasource_uid(p) ==
    IF TruthyVal(p.datasource) THEN GetOf(p.datasource, "uid", None)
    ELSE FirstTargetUid(p.targets.v)

---------------------------------------------------------------------------
(* Inputs of the datasource_uid checks *)

\* a datasource reference: with a uid, with only a type, with an empty uid,
\* empty, null, or the name of a datasource (the older dashboard format)
UidDatasources(uid) ==
    { PyDict(<<Entry("type", S("prometheus")), Entry("uid", S(uid))>>),
      PyDict(<<Entry("type", S("prometheus"))>>),
      PyDict(<<Entry("type", S("prometheus")), Entry("uid", EmptyStr)>>),
      PyDict(<<>>), None, S("Prometheus") }

\* a target with each datasource under one of two uids, or without the key
UidTargets ==
    { PyDict(Present(<<Entry("refId", S("A")), Entry("datasource", ds)>>)) :
        ds \in {Absent} \cup UidDatasources("t1") \cup UidDatasources("t2") }

UidInputs ==
    /\ t_panel \in [datasource : UidDatasources("p"),
                    targets : {PyList(l) : l \in ListsOf(UidTargets, MaxTargets)}]
    /\ t_frames = <<>>
    /\ t_kwargs = Idle
    /\ t_op = "none"
    /\ t_out = NotCalled

\* a read of panel.datasource_uid
GetDatasourceUid ==
    /\ t_op = "none"
    /\ t_out = NotCalled
    /\ t_op' = "datasource_uid"
    /\ t_out' = datasource_uid(t_panel)
    /\ UNCHANGED <<t_panel, t_frames, t_kwargs>>
    /\ UNCHANGED <<substVars, queryVars, frameVars, resultVars, thresholdVars, registryVars,
                   cycleVars, timestampVars, limiterVars>>

UidNext == GetDatasourceUid

---------------------------------------------------------------------------
(* Inputs of the field config checks *)

\* defaults with each key absent, null or set; thresholds also empty and with null steps
ConfigDefaults ==
    { PyDict(Present(<<Entry("unit", unit), Entry("decimals", decimals), Entry("min", lo),
                       Entry("max", hi), Entry("thresholds", thresholds)>>)) :
        unit \in {Absent, None, S("percent")}, decimals \in {Absent, PyInt(2)},
        lo \in {Absent, PyInt(0)}, hi \in {Absent, PyInt(100)},
        thresholds \in {Absent, None, PyDict(<<>>), GaugeSteps,
                        PyDict(<<Entry("steps", None)>>)} }

\* fieldConfig of the dashboard JSON: with defaults, without, with null or a
\* list in their place, and null itself (Panel.from_api_response keeps a null)
ConfigShapes ==
    {PyDict(<<Entry("defaults", d)>>) : d \in ConfigDefaults \cup {None, PyList(<<>>)}}
    \cup {PyDict(<<>>), None}

ConfigInputs ==
    /\ t_panel \in [field_config : ConfigShapes]
    /\ t_frames = <<>>
    /\ t_kwargs = Idle
    /\ t_op = "none"
    /\ t_out = NotCalled

\* a call of one of the field config readers of the panel
GetUnit ==
    /\ t_op = "none"
    /\ t_op' = "get_unit"
    /\ t_out' = get_unit(t_panel)
    /\ UNCHANGED <<t_panel, t_frames, t_kwargs>>
    /\ UNCHANGED <<substVars, queryVars, frameVars, resultVars, thresholdVars, registryVars,
                   cycleVars, timestampVars, limiterVars>>

GetDecimals ==
    /\ t_op = "none"
    /\ t_op' = "get_decimals"
    /\ t_out' = get_decimals(t_panel)
    /\ UNCHANGED <<t_panel, t_frames, t_kwargs>>
    /\ UNCHANGED <<substVars, queryVars, frameVars, resultVars, thresholdVars, registryVars,
                   cycleVars, timestampVars, limiterVars>>

GetMinMax ==
    /\ t_op = "none"
    /\ t_op' = "get_min_max"
    /\ t_out' = get_min_max(t_panel)
    /\ UNCHANGED <<t_panel, t_frames, t_kwargs>>
    /\ UNCHANGED <<substVars, queryVars, frameVars, resultVars, thresholdVars, registryVars,
                   cycleVars, timestampVars, limiterVars>>

GetThresholds ==
    /\ t_op = "none"
    /\ t_op' = "get_thresholds"
    /\ t_out' = get_thresholds(t_panel)
    /\ UNCHANGED <<t_panel, t_frames, t_kwargs>>
    /\ UNCHANGED <<substVars, queryVars, frameVars, resultVars, thresholdVars, registryVars,
                   cycleVars, timestampVars, limiterVars>>

ConfigNext == GetUnit \/ GetDecimals \/ GetMinMax \/ GetThresholds

---------------------------------------------------------------------------
(* service/transformers/stat.py: StatTransformer *)

\* [{"time": t, "value": v} for t, v in zip(time_values, values) if v is not None]
RECURSIVE SparklinePairs(_, _)
SparklinePairs(time_values, values) ==
    IF time_values = <<>> \/ values = <<>> THEN <<>>
    ELSE (IF Head(values) # None
          THEN <<PyDict(<<Entry("time", Head(time_values)), Entry("value", Head(values))>>)>>
          ELSE <<>>)
         \o SparklinePairs(Tail(time_values), Tail(values))

\* a slip: a column of one point gives a sparkline too
_extract_sparkline_of_any_length(frames) ==
    IF frames = <<>> THEN <<>>
    ELSE LET time_values == get_time_values(frames[1])
             value_fields == get_value_fields(frames[1])
         IN IF value_fields = <<>> \/ time_values.v = <<>> THEN <<>>
            ELSE SparklinePairs(time_values.v, value_fields[1].values.v)

\* StatTransformer._extract_sparkline(query_result)
_extract_sparkline(frames) ==
    IF frames = <<>> THEN <<>>
    ELSE LET time_values == get_time_values(frames[1])
             value_fields == get_value_fields(frames[1])
         IN IF value_fields = <<>> \/ time_values.v = <<>> THEN <<>>
            ELSE IF Len(value_fields[1].values.v) <= 1 THEN <<>>
            ELSE SparklinePairs(time_values.v, value_fields[1].values.v)

\* StatTransformer.transform(panel, query_result)
StatTransformer_transform(p, frames, now) ==
    LET base == _base_variables(InstanceOf("StatTransformer", LoadedAttrs), <<p>>, now)
        value == get_single_value(frames)
        sparkline_data == _extract_sparkline(frames)
    IN PyDict(base.v
              \o <<Entry("value", value),
                   Entry("formatted_value", _format_value(value, get_unit(p), get_decimals(p))),
                   Entry("color", S(IF IsNumber(value) THEN _get_threshold_color(value, p)
                                    ELSE "green"))>>
              \o (IF sparkline_data # <<>> THEN <<Entry("sparkline", PyList(sparkline_data))>>
                  ELSE <<>>))

---------------------------------------------------------------------------
(* Inputs of the stat checks *)

\* a panel without field config and one with a unit and threshold steps
StatPanels ==
    { [ title |-> S("CPU"), description |-> EmptyStr, transformations |-> PyList(<<>>),
        field_config |-> fc ] :
        fc \in { PyDict(<<>>),
                 PyDict(<<Entry("defaults", PyDict(<<Entry("unit", S("percent")),
                                                     Entry("thresholds", GaugeSteps)>>))>>) } }

\* the first n instants of a time column, a minute apart
RECURSIVE StatTimes(_)
StatTimes(n) == IF n = 0 THEN <<>> ELSE Append(StatTimes(n - 1), PyInt(60 * n))

\* value columns of up to MaxPoints entries: numbers below and above the
\* yellow step, null, and a number that reads as epoch seconds
StatColumns == ListsOf({PyInt(5), PyInt(75), None, PyInt(1700000000)}, MaxPoints)

\* a first frame with a time column of any length beside the value column,
\* with the value column alone, and with a time column alone
StatFrames ==
    { [fields |-> PyList(<<TimeField, CpuField>>),
       values |-> PyList(<<PyList(StatTimes(n)), PyList(column)>>), name |-> S("A")] :
        n \in 0..MaxPoints, column \in StatColumns }
    \cup { [fields |-> PyList(<<CpuField>>), values |-> PyList(<<PyList(column)>>),
            name |-> S("A")] : column \in StatColumns }
    \cup { [fields |-> PyList(<<TimeField>>), values |-> PyList(<<PyList(StatTimes(2))>>),
            name |-> S("A")] }

StatResults ==
    {<<>>} \cup {<<fr>> : fr \in StatFrames} \cup {<<fr, OtherFrame>> : fr \in StatFrames}

\* no epoch seconds in the first frame
EpochFree(frames) ==
    IF frames = <<>> THEN TRUE
    ELSE \A n \in 1..Len(frames[1].values.v) :
            \A i \in 1..Len(frames[1].values.v[n].v) :
                frames[1].values.v[n].v[i] # PyInt(1700000000)

\* the threshold steps are met by the small values only
StatInputs ==
    /\ \E pf \in {pf \in StatPanels \X StatResults :
                    pf[1].field_config = PyDict(<<>>) \/ EpochFree(pf[2])} :
          /\ t_panel = pf[1]
          /\ t_frames = pf[2]
    /\ t_kwargs = PyDict(<<Entry("label_key", S("name")), Entry("timezone", S("UTC"))>>)
    /\ t_op = "none"
    /\ t_out = NotCalled

\* a call of StatTransformer().transform(panel, query_result, **kwargs)
StatTransform ==
    /\ t_op = "none"
    /\ t_out = NotCalled
    /\ \E now \in Clock :
        /\ t_op' = "StatTransformer.transform"
        /\ t_out' = StatTransformer_transform(t_panel, t_frames, now)
    /\ UNCHANGED <<t_panel, t_frames, t_kwargs>>
    /\ UNCHANGED <<substVars, queryVars, frameVars, resultVars, thresholdVars, registryVars,
                   cycleVars, timestampVars, limiterVars>>

StatNext == StatTransform

---------------------------------------------------------------------------
(* Inputs of the _format_value checks *)

\* null, ints, a bool, a text, floats that are whole, end on a half, on a
\* quarter, carry two decimals, are negative, and floats with three decimals
FormatValues ==
    { None, PyInt(85), PyInt(-3), PyBool(TRUE), S("up"),
      PyFloat(8500), PyFloat(8550), PyFloat(8650), PyFloat(1225), PyFloat(8557), PyFloat(-350),
      PyFloat3(8556, 7), PyFloat3(234, 2), PyFloat3(0, 7) }

FormatUnits ==
    { EmptyStr, S("percent"), S("percentunit"), S("bytes"), S("decbytes"), S("bits"),
      S("s"), S("ms"), S("ns"), S("rpm") }

FormatDecimals == {None, PyInt(0), PyInt(1), PyInt(2), PyInt(3)}

\* t_kwargs carries the arguments of the call
FormatInputs ==
    /\ t_kwargs \in { PyDict(<<Entry("value", value), Entry("unit", unit),
                               Entry("decimals", decimals)>>) :
                        value \in FormatValues, unit \in FormatUnits,
                        decimals \in FormatDecimals }
    /\ t_panel = Idle
    /\ t_frames = <<>>
    /\ t_op = "none"
    /\ t_out = NotCalled

\* a call of self._format_value(value, unit, decimals)
FormatValue ==
    /\ t_op = "none"
    /\ t_out = NotCalled
    /\ t_op' = "_format_value"
    /\ t_out' = _format_value(Get(t_kwargs.v, "value"), Get(t_kwargs.v, "unit"),
                              Get(t_kwargs.v, "decimals"))
    /\ UNCHANGED <<t_panel, t_frames, t_kwargs>>
    /\ UNCHANGED <<substVars, queryVars, frameVars, resultVars, thresholdVars, registryVars,
                   cycleVars, timestampVars, limiterVars>>

FormatNext == FormatValue

---------------------------------------------------------------------------
(* service/rate_limiter.py: RateLimiter *)

_window == 60

IsDigit(c) == c \in {"0", "1", "2", "3", "4", "5", "6", "7", "8", "9"}

DigitValue(c) ==
    CASE c = "0" -> 0 [] c = "1" -> 1 [] c = "2" -> 2 [] c = "3" -> 3 [] c = "4" -> 4
      [] c = "5" -> 5 [] c = "6" -> 6 [] c = "7" -> 7 [] c = "8" -> 8 [] OTHER -> 9

RECURSIVE DigitsValue(_)
DigitsValue(chars) ==
    IF chars = <<>> THEN 0
    ELSE 10 * DigitsValue(SubSeq(chars, 1, Len(chars) - 1)) + DigitValue(chars[Len(chars)])

\* int(val) of a text of digits; ValueError for the other texts the
\* environment holds here (letters, the empty text)
IntOfText(chars) ==
    IF chars # <<>> /\ \A i \in 1..Len(chars) : IsDigit(chars[i]) THEN PyInt(DigitsValue(chars))
    ELSE Raised("ValueError")

\* RateLimiter.limit: os.environ.get("RATE_LIMIT", "") as an int, None when
\* it is not set, empty or no number
limit(environ) ==
    LET val == IF environ = Absent THEN <<>> ELSE environ.v
    IN IF val = <<>> THEN None
       ELSE IF IntOfText(val).t = "raised" THEN None
       ELSE IntOfText(val)

\* a slip: the timestamp is recorded whether or not the call is allowed
is_allowed_recording_every_call(requests, environ, grafana_url, now) ==
    IF limit(environ) = None THEN [requests |-> requests, result |-> TRUE]
    ELSE LET cutoff == now - _window
             kept == SelectSeq(requests[grafana_url], LAMBDA t : t > cutoff)
         IN [requests |-> [requests EXCEPT ![grafana_url] = Append(kept, now)],
             result |-> ~(Len(kept) >= limit(environ).v[1])]

\* RateLimiter.is_allowed(grafana_url) at time now: [requests: self._requests
\* after the call, result: the value returned]
is_allowed(requests, environ, grafana_url, now) ==
    IF limit(environ) = None THEN [requests |-> requests, result |-> TRUE]
    ELSE LET cutoff == now - _window
             kept == SelectSeq(requests[grafana_url], LAMBDA t : t > cutoff)
         IN IF Len(kept) >= limit(environ).v[1]
            THEN [requests |-> [requests EXCEPT ![grafana_url] = kept], result |-> FALSE]
            ELSE [requests |-> [requests EXCEPT ![grafana_url] = Append(kept, now)],
                  result |-> TRUE]

---------------------------------------------------------------------------
(* Inputs of the rate limiter checks *)

\* the most calls of is_allowed in a run
MaxRequests == 3

LimiterUrls == {"https://a.example", "https://b.example"}

\* RATE_LIMIT in the environment: not set, empty, no number, 1, 2
RateLimits ==
    {Absent, PyStr(<<>>), PyStr(<<"a", "b", "c">>), PyStr(<<"1">>), PyStr(<<"2">>)}

\* the seconds between a call and the one before it: none, one, one less
\* than the window, the window
Elapsed == {0, 1, _window - 1, _window}

\* rate_limiter = RateLimiter(): no request recorded
LimiterStart ==
    /\ _requests = [url \in LimiterUrls |-> <<>>]
    /\ RATE_LIMIT \in RateLimits
    /\ clock = 0
    /\ allowed = <<>>

LimiterIdle ==
    /\ _requests = <<>>
    /\ RATE_LIMIT = Idle
    /\ clock = 0
    /\ allowed = <<>>

\* a call of rate_limiter.is_allowed(grafana_url), some seconds after the
\* call before it
IsAllowed ==
    /\ RATE_LIMIT # Idle
    /\ Len(allowed) < MaxRequests
    /\ \E grafana_url \in LimiterUrls, seconds \in Elapsed :
        LET r == is_allowed(_requests, RATE_LIMIT, grafana_url, clock + seconds) IN
        /\ _requests' = r.requests
        /\ clock' = clock + seconds
        /\ allowed' = Append(allowed, [url |-> grafana_url, at |-> clock + seconds,
                                       result |-> r.result])
    /\ UNCHANGED RATE_LIMIT
    /\ UNCHANGED <<substVars, queryVars, frameVars, resultVars, thresholdVars, registryVars,
                   cycleVars, transformVars, timestampVars>>

LimiterNext == IsAllowed

---------------------------------------------------------------------------
(* Specifications: one per component, the other components idle *)

SubstInit == SubstInputs /\ QueryIdle /\ FrameIdle /\ ResultIdle /\ ThresholdIdle /\ RegistryIdle /\ CycleIdle
    /\ TransformIdle /\ TimestampIdle /\ LimiterIdle
SpecSubst == SubstInit /\ [][SubstNext]_vars

QueryInit == QueryInputs /\ SubstIdle /\ FrameIdle /\ ResultIdle /\ ThresholdIdle /\ RegistryIdle /\ CycleIdle
    /\ TransformIdle /\ TimestampIdle /\ LimiterIdle
SpecQuery == QueryInit /\ [][QueryNext]_vars

FrameInit == FrameInputs /\ SubstIdle /\ QueryIdle /\ ResultIdle /\ ThresholdIdle /\ RegistryIdle /\ CycleIdle
    /\ TransformIdle /\ TimestampIdle /\ LimiterIdle
SpecFrame == FrameInit /\ [][FrameNext]_vars

ResultInit == ResultInputs /\ SubstIdle /\ QueryIdle /\ FrameIdle /\ ThresholdIdle /\ RegistryIdle /\ CycleIdle
    /\ TransformIdle /\ TimestampIdle /\ LimiterIdle
SpecResult == ResultInit /\ [][ResultNext]_vars

ThresholdInit == ThresholdInputs /\ SubstIdle /\ QueryIdle /\ FrameIdle /\ ResultIdle /\ RegistryIdle /\ CycleIdle
    /\ TransformIdle /\ TimestampIdle /\ LimiterIdle
SpecThreshold == ThresholdInit /\ [][ThresholdNext]_vars

RegistryInit ==
    RegistryStart /\ SubstIdle /\ QueryIdle /\ FrameIdle /\ ResultIdle /\ ThresholdIdle /\ CycleIdle
    /\ TransformIdle /\ TimestampIdle /\ LimiterIdle
SpecRegistry == RegistryInit /\ [][RegistryNext]_vars

CycleInit == CycleStart /\ SubstIdle /\ QueryIdle /\ FrameIdle /\ ResultIdle /\ ThresholdIdle
    /\ TransformIdle /\ TimestampIdle /\ LimiterIdle
SpecCycle == CycleInit /\ [][CycleNext]_vars

OthersIdle ==
    /\ SubstIdle /\ QueryIdle /\ FrameIdle /\ ResultIdle /\ ThresholdIdle /\ RegistryIdle
    /\ CycleIdle

SingleInit == SingleInputs /\ OthersIdle /\ TimestampIdle /\ LimiterIdle
SpecSingle == SingleInit /\ [][SingleNext]_vars

TimestampInit == TimestampInputs /\ OthersIdle /\ TransformIdle /\ LimiterIdle
SpecTimestamp == TimestampInit /\ [][TimestampNext]_vars

SeriesInit == SeriesInputs /\ OthersIdle /\ TimestampIdle /\ LimiterIdle
SpecSeries == SeriesInit /\ [][SeriesNext]_vars

TableInit == TableInputs /\ OthersIdle /\ TimestampIdle /\ LimiterIdle
SpecTable == TableInit /\ [][TableNext]_vars

GaugeInit == GaugeInputs /\ OthersIdle /\ TimestampIdle /\ LimiterIdle
SpecGauge == GaugeInit /\ [][GaugeNext]_vars

---------------------------------------------------------------------------
(* Interpolation: what the contract asks of one string *)

\* the variable a "$" at position i names: the braced name that matches, else the
\* longest bare name that matches (0 when the "$" starts no reference)
NamedAt(s, i, all_vars) ==
    LET braced == {n \in 1..Len(all_vars) : StartsWithAt(s, i, BracedRef(all_vars[n].k))}
        bare == {n \in 1..Len(all_vars) : StartsWithAt(s, i, BareRef(all_vars[n].k))}
    IN IF braced # {} THEN CHOOSE n \in braced : TRUE
       ELSE IF bare # {}
            THEN CHOOSE n \in bare : \A m \in bare : Len(all_vars[m].k) <= Len(all_vars[n].k)
       ELSE 0

RefLenAt(s, i, all_vars) ==
    LET n == NamedAt(s, i, all_vars) IN
    IF StartsWithAt(s, i, BracedRef(all_vars[n].k)) THEN Len(BracedRef(all_vars[n].k))
    ELSE Len(BareRef(all_vars[n].k))

\* one left-to-right pass: every reference gives its own variable's value, and
\* the text of a value is not scanned again
RECURSIVE ExpectedStrFrom(_, _, _)
ExpectedStrFrom(s, i, all_vars) ==
    IF i > Len(s) THEN <<>>
    ELSE IF NamedAt(s, i, all_vars) # 0
         THEN Str(all_vars[NamedAt(s, i, all_vars)].v)
                  \o ExpectedStrFrom(s, i + RefLenAt(s, i, all_vars), all_vars)
    ELSE <<s[i]>> \o ExpectedStrFrom(s, i + 1, all_vars)

RECURSIVE ExpectedStructure(_, _)
RECURSIVE ExpectedEntries(_, _)
RECURSIVE ExpectedItems(_, _)
ExpectedEntries(entries, all_vars) ==
    IF entries = <<>> THEN <<>>
    ELSE <<Entry(Head(entries).k, ExpectedStructure(Head(entries).v, all_vars))>>
             \o ExpectedEntries(Tail(entries), all_vars)

ExpectedItems(items, all_vars) ==
    IF items = <<>> THEN <<>>
    ELSE <<ExpectedStructure(Head(items), all_vars)>> \o ExpectedItems(Tail(items), all_vars)

ExpectedStructure(o, all_vars) ==
    CASE o.t = "str" -> PyStr(ExpectedStrFrom(o.v, 1, all_vars))
      [] o.t = "dict" -> PyDict(ExpectedEntries(o.v, all_vars))
      [] o.t = "list" -> PyList(ExpectedItems(o.v, all_vars))
      [] OTHER -> o

\* the value a name has for the caller: the user's when supplied, else the built-in
EffectiveValue(name) ==
    IF variables.t = "dict" /\ HasKey(variables.v, name) THEN Get(variables.v, name)
    ELSE Get(GRAFANA_BUILTINS, name)

\* C1: _substitute_variables returns a structure of the same shape in which every
\* ${name} and bare $name inside a string leaf is replaced by the stringified
\* value of the variable the reference names, also when one name is a prefix of
\* another and whatever the processing order; other leaves and keys are unchanged.
C1_SubstitutesEveryReference ==
    substituted \notin {NotCalled, Idle} =>
        substituted = ExpectedStructure(obj, AllVars(variables))

\* C2: a reference to a built-in, in either form, is substituted when the caller
\* supplies no variables (None or {}), and resolves to the user's value whenever
\* the user supplies a variable of that name.
C2_BuiltinsAlwaysAvailable ==
    substituted \notin {NotCalled, Idle} =>
        \A name \in BuiltinNames :
            obj \in {PyStr(BareRef(name)), PyStr(BracedRef(name))} =>
                substituted = PyStr(Str(EffectiveValue(name)))

---------------------------------------------------------------------------
(* query_panel: the panel is left as it was *)

PanelTargetsData == Get(panel_data, <<"t","a","r","g","e","t","s">>).v

\* C3: after any sequence of query_panel calls the panel's targets, every target
\* object and the panel-level datasource equal what they were before the calls.
C3_PanelNotMutated ==
    panel # Idle =>
        /\ Deref(heap, panel.datasource) = Get(panel_data, c_datasource)
        /\ Len(panel.targets) = Len(PanelTargetsData)
        /\ \A i \in 1..Len(panel.targets) :
               Deref(heap, panel.targets[i]) = PanelTargetsData[i]

\* two calls were made on a panel with a datasource and a target lacking one:
\* the query sent carries the inherited, substituted datasource
C3_Witness ==
    /\ panel # Idle
    /\ calls = 2
    /\ TruthyAt(heap, panel.datasource)
    /\ \E i \in 1..Len(panel.targets) :
        /\ ~HasKey(PanelTargetsData[i].v, c_datasource)
        /\ HasKey(queries[i].v, c_datasource)
        /\ Get(queries[i].v, c_datasource) # Get(panel_data, c_datasource)

---------------------------------------------------------------------------
(* DataFrame.from_api_response: the two payload shapes *)

NestedName == GetOr(GetOr(frame_data, "schema", PyDict(<<>>)), "name", Absent)
NestedFields == GetOr(GetOr(frame_data, "schema", PyDict(<<>>)), "fields", Absent)
NestedValues == GetOr(GetOr(frame_data, "data", PyDict(<<>>)), "values", Absent)
RootName == GetOr(frame_data, "name", Absent)
RootFields == GetOr(frame_data, "fields", Absent)
RootValues == GetOr(frame_data, "values", Absent)

FrameParsed == frame \notin {NotCalled, Idle}
IsNestedShape == Absent \notin {NestedName, NestedFields, NestedValues}
                    /\ {RootName, RootFields, RootValues} = {Absent}
IsFlatShape == Absent \notin {RootName, RootFields, RootValues}
                    /\ {NestedName, NestedFields, NestedValues} = {Absent}

WhenPresent(nested, root, default) ==
    IF nested # Absent THEN nested ELSE IF root # Absent THEN root ELSE default

WhenNonEmpty(nested, root, default) ==
    IF nested # Absent /\ nested.v # <<>> THEN nested
    ELSE IF root # Absent THEN root ELSE default

\* C7 as stated: the nested and the flat payload of one content give the same
\* DataFrame, and in a mixed payload each of name, fields and values is taken from
\* the nested location when it is present there and from the root otherwise.
C7_NestedWhenPresent ==
    FrameParsed =>
        /\ frame.name = WhenPresent(NestedName, RootName, EmptyStr)
        /\ frame.fields = WhenPresent(NestedFields, RootFields, PyList(<<>>))
        /\ frame.values = WhenPresent(NestedValues, RootValues, PyList(<<>>))

\* C7 amended: the nested and the flat payload of one content (empty name, field
\* list or value list included) give the DataFrame of that content, and in a mixed
\* payload each of name, fields and values is taken from the nested location when
\* it is present there and not empty, and from the root (empty when absent there
\* too) otherwise.
C7_NestedWhenNonEmpty ==
    FrameParsed =>
        /\ frame.name = WhenNonEmpty(NestedName, RootName, EmptyStr)
        /\ frame.fields = WhenNonEmpty(NestedFields, RootFields, PyList(<<>>))
        /\ frame.values = WhenNonEmpty(NestedValues, RootValues, PyList(<<>>))
        /\ IsNestedShape =>
              frame = [name |-> NestedName, fields |-> NestedFields, values |-> NestedValues]
        /\ IsFlatShape =>
              frame = [name |-> RootName, fields |-> RootFields, values |-> RootValues]

\* a mixed payload was parsed: the fields came from the schema, the values from
\* the root although data.values is present (and empty)
C7_Witness ==
    /\ FrameParsed
    /\ NestedFields # Absent /\ frame.fields = NestedFields /\ frame.fields.v # <<>>
    /\ NestedValues = PyList(<<>>) /\ RootValues # Absent
    /\ frame.values = RootValues /\ frame.values.v # <<>>

---------------------------------------------------------------------------
(* QueryResult.from_api_response: frames and error of a response *)

ResponseResults == GetOr(response, "results", PyDict(<<>>)).v
Errored(i) == HasKey(ResponseResults[i].v.v, "error")
EntryFrames(i) ==
    IF Errored(i) THEN <<>> ELSE GetOr(ResponseResults[i].v, "frames", PyList(<<>>)).v

RECURSIVE FramesBefore(_)
FramesBefore(i) == IF i <= 1 THEN 0 ELSE FramesBefore(i - 1) + Len(EntryFrames(i - 1))

NamedBy(f, ref_id) == IF f.name.v = <<>> THEN [f EXCEPT !.name = ref_id] ELSE f

ResultParsed == query_result \notin {NotCalled, Idle}

\* C8: frames is the concatenation, in response order, of the parsed frames of the
\* entries that carry no error, a frame without a name takes its entry's ref id,
\* and error is the error of the last errored entry, None when there is none.
C8_FramesAndLastError ==
    ResultParsed =>
        LET n == Len(ResponseResults)
            errored == {i \in 1..n : Errored(i)}
        IN /\ Len(query_result.frames) = FramesBefore(n + 1)
           /\ \A i \in 1..n : \A j \in 1..Len(EntryFrames(i)) :
                 query_result.frames[FramesBefore(i) + j] =
                     NamedBy(DataFrame_from_api_response(EntryFrames(i)[j]), ResponseResults[i].k)
           /\ query_result.error =
                 IF errored = {} THEN None
                 ELSE Get(ResponseResults[CHOOSE i \in errored : \A k \in errored : k <= i].v.v, "error")

\* a response with an errored entry that also lists frames, followed by an entry
\* whose unnamed frame was collected under its ref id
C8_Witness ==
    /\ ResultParsed
    /\ Len(ResponseResults) = 2
    /\ Errored(1) /\ HasKey(ResponseResults[1].v.v, "frames")
    /\ ~Errored(2)
    /\ Len(query_result.frames) = 2
    /\ query_result.frames[2].name = ResponseResults[2].k
    /\ query_result.error = S("timeout")

---------------------------------------------------------------------------
(* Threshold color and polystat status of a value *)

ThSteps == get_thresholds(th_panel).v
StepValue(i) == GetOr(ThSteps[i], "value", None)

\* the steps that apply to the measured value, by position
ApplicableSteps ==
    {i \in 1..Len(ThSteps) :
        StepValue(i) = None \/ Hundredths(StepValue(i)) <= Hundredths(th_value)}

LastApplicable == CHOOSE i \in ApplicableSteps : \A j \in ApplicableSteps : j <= i

ExpectedColor ==
    IF th_value = None \/ ThSteps = <<>> \/ ApplicableSteps = {} THEN "green"
    ELSE _get_color_name(GetOr(ThSteps[LastApplicable], "color", None))

GreenYellowRed ==
    <<Step(None, PyStr(w_green)), Step(PyInt(70), PyStr(w_yellow)), Step(PyInt(90), PyStr(w_red))>>

\* C9: _get_threshold_color gives green for a null value and for a panel without
\* steps, else the normalized color of the last step, in the given order, whose
\* value is null or <= the measured value (green when none applies); for the
\* steps [null/green, 70/yellow, 90/red] that is green below 70, yellow in
\* [70, 90) and red from 90 on; a repeated call gives the same result.
C9_LastApplicableStepWins ==
    \A k \in 1..Len(colors) :
        /\ colors[k] = ExpectedColor
        /\ colors[k] = colors[1]
        /\ (ThSteps = GreenYellowRed /\ th_value # None) =>
              colors[k] = IF Hundredths(th_value) < 7000 THEN "green"
                          ELSE IF Hundredths(th_value) < 9000 THEN "yellow"
                          ELSE "red"

\* two calls with steps given out of order: the later, smaller step decided
C9_Witness ==
    /\ Len(colors) = 2
    /\ th_value = PyInt(95)
    /\ ThSteps = <<Step(PyInt(90), PyStr(w_red)), Step(PyInt(70), PyStr(w_yellow))>>
    /\ colors = <<"yellow", "yellow">>

ThGlobal == GetOr(th_panel.options, "globalThresholdsConfig", PyList(<<>>)).v

GlobalMatches ==
    {i \in 1..Len(ThGlobal) :
        LET v == GetOr(ThGlobal[i], "value", None) IN
        IsNumber(v) /\ Hundredths(v) = Hundredths(th_value)}

StateOf(entry) == IF HasKey(entry.v, "state") THEN Get(entry.v, "state").v[1] ELSE 0

HasWord(words, text) == \E w \in words : Contains(w, text)

ExpectedStatus ==
    IF ~IsNumber(th_value)
    THEN LET text == Lower(Str(th_value)) IN
         IF HasWord({w_error, w_down, w_fail, w_critical}, text) THEN "critical"
         ELSE IF HasWord({w_warn, w_degraded}, text) THEN "warning"
         ELSE "ok"
    ELSE IF ThGlobal # <<>>
         THEN IF GlobalMatches = {} THEN "ok"
              ELSE LET first == CHOOSE i \in GlobalMatches : \A j \in GlobalMatches : i <= j IN
                   CASE StateOf(ThGlobal[first]) = 2 -> "critical"
                     [] StateOf(ThGlobal[first]) = 1 -> "warning"
                     [] OTHER -> "ok"
    ELSE IF ThSteps = <<>>
         THEN IF Hundredths(th_value) = 0 THEN "critical" ELSE "ok"
    ELSE IF ApplicableSteps = {} THEN "ok"
    ELSE LET color == GetOr(ThSteps[LastApplicable], "color", PyStr(w_green))
             text == IF color = None THEN <<>> ELSE Lower(color.v)
         IN IF HasWord({w_red}, text) THEN "critical"
            ELSE IF HasWord({w_yellow, w_orange}, text) THEN "warning"
            ELSE "ok"

\* C10: the polystat status is decided by the first applicable rule: the text of a
\* non-numeric value; else a non-empty globalThresholdsConfig by exact value match
\* (first matching entry, state 2 critical, 1 warning, other ok, no match ok),
\* without consulting the standard thresholds; else the color of the last
\* applicable standard step, and without steps 0 is critical and anything else
\* ok. The result is one of ok, warning, critical.
C10_StatusRuleOrder ==
    \A k \in 1..Len(statuses) :
        /\ statuses[k] = ExpectedStatus
        /\ statuses[k] \in {"ok", "warning", "critical"}

\* a numeric value that globalThresholdsConfig maps to warning while the standard
\* steps would have made it critical
C10_Witness ==
    /\ Len(statuses) >= 1
    /\ th_value = PyInt(75)
    /\ ThGlobal # <<>>
    /\ ThSteps = <<Step(PyInt(70), PyStr(w_yellow)), Step(PyInt(50), PyStr(w_blue))>>
    /\ statuses[1] = "warning"

---------------------------------------------------------------------------
(* The registry: what a lookup gives *)

\* every decorator of the package, as <<panel type, class>>
AllDecorators == UNION {{Decorators(m)[i] : i \in 1..Len(Decorators(m))} : m \in Modules}
RegisteredTypes == {d[1] : d \in AllDecorators}

\* cls is base, or is declared from it, directly or through its own base
RECURSIVE IsSubclass(_, _)
IsSubclass(cls, base) ==
    \/ cls = base
    \/ cls # "BaseTransformer" /\ IsSubclass(BaseOf(cls), base)

ClassOf(result) == result.v[1]

\* C6: get_transformer never raises, whatever the panel-type string. For a
\* string some decorator registers it returns an instance of exactly the class
\* decorated with that string (graph and barchart give time-series
\* transformers, grafana-polystat-panel the polystat transformer, table-old a
\* table transformer); for every other string it returns a transformer of the
\* class get_transformer("stat") gives.
C6_LookupNeverRaises ==
    \A i \in 1..Len(lookups) :
        LET panel_type == lookups[i].panel_type
            result == lookups[i].result
        IN /\ result.t = "instance"
           /\ \A d \in AllDecorators : d[1] = panel_type => result = Instance(d[2])
           /\ panel_type \in {"graph", "barchart"}
                => IsSubclass(ClassOf(result), "TimeSeriesTransformer")
           /\ panel_type = "grafana-polystat-panel" => ClassOf(result) = "PolystatTransformer"
           /\ panel_type = "table-old" => IsSubclass(ClassOf(result), "TableTransformer")
           /\ panel_type \notin RegisteredTypes
                => result = get_transformer(_TRANSFORMERS, "stat")

\* a registered type and an unregistered one have been looked up
C6_Witness ==
    \E i, j \in 1..Len(lookups) :
        /\ lookups[i].panel_type = "graph"
        /\ lookups[i].result = Instance("GraphTransformer")
        /\ lookups[j].panel_type = "unknown"
        /\ lookups[j].result = Instance("StatTransformer")

---------------------------------------------------------------------------
(* The cycle: what transform returns, and when it is invoked *)

BaseKeys == {"panel_type", "title", "description", "timestamp", "unit"}

TransformInvoked == caller # "none" /\ invoked # <<>>

\* C4: for every registered panel type, every panel and every query result,
\* with the options either caller passes (label_key alone, or label_key and
\* timezone), transform returns a mapping without raising, and the mapping has
\* at least the keys panel_type, title, description, timestamp and unit.
C4_TransformReturnsBaseKeys ==
    (TransformInvoked /\ cycle_panel.type \in RegisteredTypes)
        => /\ transformed.t = "dict"
           /\ \A key \in BaseKeys : HasKey(transformed.v, key)

QueryAnswered == caller # "none" /\ cycle_result # NotCalled

\* C5: in get_data and in fetch_and_send, a cycle whose QueryResult carries an
\* error invokes no transform and produces the error payload: panel_type
\* "error", and the upstream error as error_message, whether or not frames of
\* other queries were collected in the same QueryResult.
C5_ErrorShortCircuits ==
    (QueryAnswered /\ cycle_result.error # None)
        => /\ invoked = <<>>
           /\ HasKey(payload.v, "panel_type") /\ Get(payload.v, "panel_type") = S("error")
           /\ HasKey(payload.v, "error_message")
           /\ Get(payload.v, "error_message") = cycle_result.error

---------------------------------------------------------------------------
(* get_single_value: the value a stat or gauge panel shows *)

\* the positions of the first frame's fields that are not time fields, by type
\* or by name, and have a column
ValuePositions(fr) ==
    {n \in 1..Len(fr.fields.v) :
        /\ n <= Len(fr.values.v)
        /\ ~(HasKey(fr.fields.v[n].v, "type") /\ Get(fr.fields.v[n].v, "type") = S("time"))
        /\ ~(HasKey(fr.fields.v[n].v, "name") /\ Get(fr.fields.v[n].v, "name") \in time_names)}

FirstValueColumn(fr) ==
    fr.values.v[CHOOSE n \in ValuePositions(fr) : \A m \in ValuePositions(fr) : n <= m].v

SingleValueCalled == t_op = "get_single_value"

\* C20: get_single_value returns the last element of the first non-time value
\* column of the first frame; it returns null when there are no frames, when
\* the first frame has no non-time value column, or when that column is empty;
\* the frames after the first are never consulted.
C20_SingleValueIsLastOfFirstColumn ==
    SingleValueCalled =>
        IF t_frames = <<>> \/ ValuePositions(t_frames[1]) = {} THEN t_out = None
        ELSE IF FirstValueColumn(t_frames[1]) = <<>> THEN t_out = None
        ELSE t_out = FirstValueColumn(t_frames[1])[Len(FirstValueColumn(t_frames[1]))]

\* a first frame whose first value column, after a time field, holds two
\* values, followed by another frame
C20_Witness ==
    /\ SingleValueCalled
    /\ Len(t_frames) = 2
    /\ ValuePositions(t_frames[1]) # {}
    /\ 1 \notin ValuePositions(t_frames[1])
    /\ Len(FirstValueColumn(t_frames[1])) = 2
    /\ t_out = FirstValueColumn(t_frames[1])[2]

---------------------------------------------------------------------------
(* Gauge and bar gauge *)

GaugeCalled == t_op = "GaugeTransformer.transform"
BarGaugeCalled == t_op = "BarGaugeTransformer.transform"

\* the panel's configured bound in hundredths, or the default when the panel
\* configures none
ConfiguredBound(key, default) ==
    LET defaults == Get(t_panel.field_config.v, "defaults").v
    IN IF HasKey(defaults, key) /\ Get(defaults, key) # None
       THEN Hundredths(Get(defaults, key)) ELSE default * 100

\* the integers nearest to num / den for den # 0
Nearest(num, den) ==
    {n \in -2000..2000 :
        LET diff == num - n * den
            width == IF den < 0 THEN -den ELSE den
        IN 2 * (IF diff < 0 THEN -diff ELSE diff) <= width}

\* C13: for a numeric value and numeric min and max (0 and 100 when the panel
\* configures none) the gauge percentage is an integer in [0, 100]; when
\* min # max it is (value - min) / (max - min) * 100 rounded to the nearest
\* integer and clamped to [0, 100]; when min = max it is 100 if value >= max
\* and 0 otherwise; for a null or non-numeric value it is 0 and the color green.
C13_PercentageRoundedAndClamped ==
    GaugeCalled =>
        LET value == Get(t_out.v, "value")
            percentage == Get(t_out.v, "percentage")
            lo == ConfiguredBound("min", 0)
            hi == ConfiguredBound("max", 100)
        IN /\ percentage.t = "int"
           /\ percentage.v[1] \in 0..100
           /\ value.t \in {"int", "float"} /\ lo # hi =>
                \E n \in Nearest((Hundredths(value) - lo) * 100, hi - lo) :
                    percentage.v[1] = (IF n < 0 THEN 0 ELSE IF n > 100 THEN 100 ELSE n)
           /\ value.t \in {"int", "float"} /\ lo = hi =>
                percentage.v[1] = (IF Hundredths(value) >= hi THEN 100 ELSE 0)
           /\ value.t \notin {"int", "float"} =>
                percentage = PyInt(0) /\ Get(t_out.v, "color") = S("green")

\* 69.99 on the default range 0..100 gives 70
C13_Witness ==
    /\ GaugeCalled
    /\ Get(t_out.v, "value") = PyFloat(6999)
    /\ ~HasKey(Get(t_panel.field_config.v, "defaults").v, "min")
    /\ ~HasKey(Get(t_panel.field_config.v, "defaults").v, "max")
    /\ Get(t_out.v, "percentage") = PyInt(70)

\* the value columns of the frames as pairs <<frame, field>>
AllBarColumns ==
    {c \in (1..Len(t_frames)) \X (1..(MaxFields + 1)) :
        c[2] <= Len(t_frames[c[1]].fields.v) /\ c[2] \in ValuePositions(t_frames[c[1]])}

BarColumnLast(c) == LastOrNone(t_frames[c[1]].values.v[c[2]].v)

\* the value columns whose last value is a number
NumericBarColumns == {c \in AllBarColumns : BarColumnLast(c).t \in {"int", "float"}}

\* the place of a column among the given ones, in frame-then-field order
BarRank(c, cols) ==
    Cardinality({d \in cols : d[1] < c[1] \/ (d[1] = c[1] /\ d[2] <= c[2])})

\* the bars are the given columns in frame-then-field order, each from its
\* column's last value, and the panel-level entries mirror the first bar
BarsAre(cols) ==
    LET bars == Get(t_out.v, "bars").v
    IN /\ Len(bars) = Cardinality(cols)
       /\ \A c \in cols :
            BarRank(c, cols) <= Len(bars) =>
                LET bar == bars[BarRank(c, cols)].v
                IN /\ Get(bar, "name") = FieldNameAt(t_frames[c[1]], c[2])
                   /\ Get(bar, "value") = BarColumnLast(c)
                   /\ Get(bar, "formatted_value")
                        = _format_value(BarColumnLast(c), get_unit(t_panel), get_decimals(t_panel))
       /\ IF bars # <<>>
          THEN \A key \in {"value", "formatted_value", "percentage", "color"} :
                    Get(t_out.v, key) = Get(bars[1].v, key)
          ELSE /\ Get(t_out.v, "value") = None
               /\ Get(t_out.v, "formatted_value") = S("N/A")
               /\ Get(t_out.v, "percentage") = PyInt(0)
               /\ Get(t_out.v, "color") = S("green")

\* C12 as stated: the bars list holds exactly one bar for every non-time value
\* column of every frame, in frame-then-field order, each built from the
\* column's last value; the panel-level value, formatted_value, percentage and
\* color equal those of bars[0], and are null, "N/A", 0 and green without bars.
C12_OneBarPerColumn == BarGaugeCalled => BarsAre(AllBarColumns)

\* C12, amended: the bars list holds exactly one bar for every non-time value
\* column of every frame whose last value is a number, in frame-then-field
\* order, each built from the column's last value; the panel-level value,
\* formatted_value, percentage and color equal those of bars[0], and are null,
\* "N/A", 0 and green without bars.
C12_OneBarPerNumericColumn == BarGaugeCalled => BarsAre(NumericBarColumns)

\* two frames, the first ending with null and the second with a number: one bar
C12_Witness ==
    /\ BarGaugeCalled
    /\ Len(t_frames) = 2
    /\ Cardinality(AllBarColumns) = 2
    /\ NumericBarColumns = {<<2, 2>>}
    /\ BarColumnLast(<<1, 2>>) = None
    /\ Len(Get(t_out.v, "bars").v) = 1
    /\ Get(t_out.v, "value") = PyInt(42)

---------------------------------------------------------------------------
(* Timestamps of the chart points *)

TimestampFormatted == ts # Idle /\ ts_out # NotCalled

\* a string of the shape HH:MM
IsHourMinute(val) ==
    /\ val.t = "str"
    /\ Len(val.v) = 5
    /\ val.v[3] = ":"
    /\ \A i \in {1, 2, 4, 5} : val.v[i] \in {"0", "1", "2", "3", "4", "5", "6", "7", "8", "9"}

\* C19: the formatter takes a numeric timestamp above 1_000_000_000_000 as
\* milliseconds and any other numeric timestamp as seconds and renders the
\* instant as the HH:MM string of its UTC time; a null timestamp gives the
\* empty string, a non-numeric timestamp its string form unchanged; the
\* formatter never raises.
C19_FormatsEveryTimestamp ==
    TimestampFormatted =>
        /\ ts_out.t # "raised"
        /\ ts = None => ts_out = EmptyStr
        /\ ts.t = "str" => ts_out = ts
        /\ ts.t \in {"int", "float", "long"} => IsHourMinute(ts_out)

---------------------------------------------------------------------------
(* Time series *)

SeriesCalled == t_op = "TimeSeriesTransformer.transform"
SeriesReturned == SeriesCalled /\ t_out.t = "dict"

\* the value columns of the frames as pairs <<frame, field>>, each one a series
SeriesPlaces ==
    {c \in (1..Len(t_frames)) \X (1..(MaxFields + 1)) :
        c[2] <= Len(t_frames[c[1]].fields.v) /\ c[2] \in ValuePositions(t_frames[c[1]])}

\* the place of a series in series_list
SeriesRank(c) ==
    Cardinality({d \in SeriesPlaces : d[1] < c[1] \/ (d[1] = c[1] /\ d[2] <= c[2])})

SeriesAt(c) == Get(t_out.v, "series").v[SeriesRank(c)].v

\* the chart points of a series: those after the points of the series before it
RECURSIVE PointsBefore(_)
PointsBefore(k) ==
    IF k <= 1 THEN 0
    ELSE PointsBefore(k - 1) + Get(Get(t_out.v, "series").v[k - 1].v, "point_count").v[1]

PointsOf(c) ==
    SubSeq(Get(t_out.v, "chart_data").v, PointsBefore(SeriesRank(c)) + 1,
           PointsBefore(SeriesRank(c) + 1))

\* the name the option label_key gives the series of a field
NameByOption(field) ==
    LET key == Get(t_kwargs.v, "label_key").v[1]
    IN IF HasKey(field.v, "labels") /\ HasKey(Get(field.v, "labels").v, key)
       THEN Get(Get(field.v, "labels").v, key)
       ELSE IF HasKey(field.v, "name") THEN Get(field.v, "name")
       ELSE S("Value")

\* C11: invoked with the option label_key = K, as both callers pass it, the
\* transformer names every series whose field carries labels[K] by labels[K],
\* a series whose field has no labels[K] by the field's own name, and by
\* "Value" when the field has no name; the same name is the label of every
\* chart point of the series.
C11_SeriesNamedByLabelKey ==
    SeriesReturned =>
        \A c \in SeriesPlaces :
            LET name == NameByOption(t_frames[c[1]].fields.v[c[2]])
            IN /\ Get(SeriesAt(c), "name") = name
               /\ \A k \in 1..Len(PointsOf(c)) : Get(PointsOf(c)[k].v, "label") = name

\* the indices of the numeric entries of a column
NumericIndices(column) == {i \in 1..Len(column) : column[i].t \in {"int", "float"}}

\* the indices of a column that give a point
PointIndices(times, column) ==
    {i \in 1..Len(column) : i <= Len(times) /\ column[i] # None}

\* the statistics and the points of the series at c are those of its column
SeriesMatchesColumn(c) ==
    LET column == t_frames[c[1]].values.v[c[2]].v
        times == get_time_values(t_frames[c[1]]).v
        numeric == NumericIndices(column)
        given == PointIndices(times, column)
        series == SeriesAt(c)
        points == PointsOf(c)
    IN /\ IF numeric = {}
          THEN \A key \in {"current", "min", "max", "avg"} : Get(series, key) = None
          ELSE /\ Get(series, "current") = column[CHOOSE i \in numeric : \A j \in numeric : j <= i]
               /\ \E i \in numeric :
                    /\ Get(series, "min") = column[i]
                    /\ \A j \in numeric : Hundredths(column[i]) <= Hundredths(column[j])
               /\ \E i \in numeric :
                    /\ Get(series, "max") = column[i]
                    /\ \A j \in numeric : Hundredths(column[i]) >= Hundredths(column[j])
               /\ Get(series, "avg").t = "float"
               /\ Get(series, "avg").v[1]
                    \in Nearest(SumOf(NumericValues(column)), Cardinality(numeric))
       /\ Get(series, "point_count") = PyInt(Cardinality(given))
       /\ Len(points) = Cardinality(given)
       /\ \A i \in given :
            LET k == Cardinality({j \in given : j <= i})
            IN k <= Len(points) =>
                /\ Get(points[k].v, "value") = column[i]
                /\ Get(points[k].v, "time") = _format_timestamp(times[i])

\* C18: for every series, current is the last numeric entry of the value
\* column, min, max and avg (rounded to 2 places) are taken over the numeric
\* entries only, all four null when the column has no numeric entry; the chart
\* points of the series are the pairs (time[i], value[i]), in index order, for
\* the indices i in both the time column and the value column with value[i]
\* not null, and point_count is the number of those points.
C18_StatisticsAndPoints ==
    SeriesCalled =>
        /\ t_out.t = "dict"
        /\ \A c \in SeriesPlaces : SeriesMatchesColumn(c)

---------------------------------------------------------------------------
(* Tables *)

TableCalled == t_op = "TableTransformer.transform"

TableColumns == Get(t_out.v, "columns").v
TableRows == Get(t_out.v, "rows").v

\* a field that is not a time field and carries labels that are not empty
CarriesLabels(field) ==
    /\ ~(HasKey(field.v, "type") /\ Get(field.v, "type") = S("time"))
    /\ HasKey(field.v, "labels")
    /\ Get(field.v, "labels").v # <<>>

\* more than one frame, and a non-time field of the first carries labels
MultiFrameShape ==
    /\ Len(t_frames) > 1
    /\ \E n \in 1..Len(t_frames[1].fields.v) : CarriesLabels(t_frames[1].fields.v[n])

OnStandardPath == TableCalled /\ t_frames # <<>> /\ ~MultiFrameShape
OnMultiFramePath == TableCalled /\ MultiFrameShape

StandardResult ==
    _transform_standard_table(t_frames, get_excluded_fields(t_panel), get_field_renames(t_panel))

MultiFrameResult ==
    _transform_prometheus_table(t_frames, get_excluded_fields(t_panel),
                                get_field_renames(t_panel), t_kwargs)

\* C15: the transformer takes the multi-frame path exactly when the result has
\* more than one frame and a non-time field of the first frame carries
\* non-empty labels; in every other case with at least one frame (a single
\* frame that carries labels, several frames whose first carries no labels)
\* it takes the standard path.
C15_PathByFramesAndLabels ==
    (TableCalled /\ t_frames # <<>>) =>
        IF MultiFrameShape
        THEN TableColumns = MultiFrameResult.columns /\ TableRows = MultiFrameResult.rows
        ELSE TableColumns = StandardResult.columns /\ TableRows = StandardResult.rows

\* a single frame that carries labels goes the standard path, which gives
\* another table than the multi-frame path would
C15_Witness ==
    /\ TableCalled
    /\ Len(t_frames) = 1
    /\ \E n \in 1..Len(t_frames[1].fields.v) : CarriesLabels(t_frames[1].fields.v[n])
    /\ TableColumns = StandardResult.columns
    /\ TableRows = StandardResult.rows
    /\ StandardResult # MultiFrameResult

\* the positions of the first frame's fields whose name is not excluded
KeptFields ==
    {n \in 1..Len(t_frames[1].fields.v) :
        FieldNameAt(t_frames[1], n).v \notin get_excluded_fields(t_panel)}

KeptRank(n) == Cardinality({m \in KeptFields : m <= n})

\* the length of the first column of the first frame
FirstColumnLength ==
    IF t_frames[1].values.v = <<>> THEN 0 ELSE Len(t_frames[1].values.v[1].v)

\* C14: on the standard path, columns is the first frame's field names without
\* the excluded names, in field order, each replaced by its rename when the
\* rename map has one; rows has one row per index below the length of the
\* frame's first column, and row r holds, for each included column in the same
\* order, the formatted cell at index r of that column, or the empty string
\* when the column is missing or shorter than r + 1.
C14_StandardTable ==
    OnStandardPath =>
        /\ Len(TableColumns) = Cardinality(KeptFields)
        /\ \A n \in KeptFields :
            KeptRank(n) <= Len(TableColumns) =>
                TableColumns[KeptRank(n)]
                    = (IF HasKey(get_field_renames(t_panel), FieldNameAt(t_frames[1], n).v)
                       THEN Get(get_field_renames(t_panel), FieldNameAt(t_frames[1], n).v)
                       ELSE FieldNameAt(t_frames[1], n))
        /\ Len(TableRows) = FirstColumnLength
        /\ \A r \in 1..Len(TableRows) :
            /\ Len(TableRows[r].v) = Cardinality(KeptFields)
            /\ \A n \in KeptFields :
                KeptRank(n) <= Len(TableRows[r].v) =>
                    TableRows[r].v[KeptRank(n)]
                        = (IF n <= Len(t_frames[1].values.v)
                              /\ r <= Len(t_frames[1].values.v[n].v)
                           THEN _format_cell(t_frames[1].values.v[n].v[r])
                           ELSE EmptyStr)

\* a frame of three fields, one excluded and one renamed, with a first column
\* of two entries and a missing third column: two rows ending with ""
C14_Witness ==
    /\ OnStandardPath
    /\ Len(t_frames[1].fields.v) = 3
    /\ Cardinality(KeptFields) = 2
    /\ 3 \in KeptFields
    /\ \E n \in KeptFields : HasKey(get_field_renames(t_panel), FieldNameAt(t_frames[1], n).v)
    /\ Len(t_frames[1].values.v) = 2
    /\ Len(TableRows) = 2
    /\ TableRows[2].v[2] = EmptyStr
    /\ TableRows[1].v[1] # EmptyStr

\* the label keys of the non-time fields of all frames, without __name__ and
\* the excluded names
LabelledPlaces ==
    {c \in (1..Len(t_frames)) \X (1..(MaxFields + 1)) :
        /\ c[2] <= Len(t_frames[c[1]].fields.v)
        /\ ~(HasKey(t_frames[c[1]].fields.v[c[2]].v, "type")
             /\ Get(t_frames[c[1]].fields.v[c[2]].v, "type") = S("time"))
        /\ HasKey(t_frames[c[1]].fields.v[c[2]].v, "labels")}

LabelKeySet ==
    (UNION { {Get(t_frames[c[1]].fields.v[c[2]].v, "labels").v[j].k :
                j \in 1..Len(Get(t_frames[c[1]].fields.v[c[2]].v, "labels").v)} :
             c \in LabelledPlaces }
     \ {w_internal}) \ get_excluded_fields(t_panel)

PriorityRank(key) ==
    IF \E i \in 1..Len(priority_cols) : priority_cols[i] = key
    THEN CHOOSE i \in 1..Len(priority_cols) : priority_cols[i] = key
    ELSE 0

\* a comes before b: by the priority list, then priority keys before the
\* others, then alphabetically
KeyBefore(a, b) ==
    IF PriorityRank(a) > 0 /\ PriorityRank(b) > 0 THEN PriorityRank(a) < PriorityRank(b)
    ELSE IF PriorityRank(a) > 0 \/ PriorityRank(b) > 0 THEN PriorityRank(a) > 0
    ELSE StrLess(a, b)

KeyPlace(key) == 1 + Cardinality({other \in LabelKeySet : KeyBefore(other, key)})

ValueExcluded ==
    w_Value \in get_excluded_fields(t_panel) \/ w_value \in get_excluded_fields(t_panel)

\* C16: on the multi-frame path, the label columns are the union of the label
\* keys of the non-time fields of all frames, without __name__ and without the
\* excluded names, the keys of the priority list (service_name, name, instance,
\* job, state) first in that order and the other keys after them in
\* alphabetical order; a Value column is appended last unless it is excluded.
C16_LabelColumnsOrdered ==
    OnMultiFramePath =>
        /\ Len(TableColumns) = Cardinality(LabelKeySet) + (IF ValueExcluded THEN 0 ELSE 1)
        /\ \A key \in LabelKeySet :
            KeyPlace(key) <= Len(TableColumns) =>
                TableColumns[KeyPlace(key)]
                    = (IF HasKey(get_field_renames(t_panel), key)
                       THEN Get(get_field_renames(t_panel), key)
                       ELSE _format_column_name(key))
        /\ ~ValueExcluded /\ TableColumns # <<>> =>
                Last(TableColumns)
                    = (IF HasKey(get_field_renames(t_panel), w_Value)
                       THEN Get(get_field_renames(t_panel), w_Value)
                       ELSE IF HasKey(get_field_renames(t_panel), w_value)
                       THEN Get(get_field_renames(t_panel), w_value)
                       ELSE PyStr(w_Value))

\* labels name, app and __name__ over two frames give the columns Name, App, Value
C16_Witness ==
    /\ OnMultiFramePath
    /\ t_panel.transformations.v = <<>>
    /\ LabelKeySet = {w_name, w_app, w_instance}
    /\ TableColumns = <<_format_column_name(w_name), _format_column_name(w_instance),
                        _format_column_name(w_app), PyStr(w_Value)>>
    /\ TableColumns[3] = PyStr(<<"A", "p", "p">>)

\* the frames that have a field that is not a time field
FramesWithValue ==
    {f \in 1..Len(t_frames) :
        \E n \in 1..Len(t_frames[f].fields.v) :
            ~(HasKey(t_frames[f].fields.v[n].v, "type")
              /\ Get(t_frames[f].fields.v[n].v, "type") = S("time"))}

\* the position of the value field of a frame: its first non-time field
ValuePlace(f) ==
    CHOOSE n \in 1..Len(t_frames[f].fields.v) :
        /\ ~(HasKey(t_frames[f].fields.v[n].v, "type")
             /\ Get(t_frames[f].fields.v[n].v, "type") = S("time"))
        /\ \A m \in 1..(n - 1) : Get(t_frames[f].fields.v[m].v, "type") = S("time")

\* the row is the one of frame f: its labels under the label columns, and the
\* last element of its value column, formatted, under the Value column
RowOfFrame(row, f) ==
    LET field == t_frames[f].fields.v[ValuePlace(f)].v
        labels == IF HasKey(field, "labels") THEN Get(field, "labels").v ELSE <<>>
        column == IF ValuePlace(f) <= Len(t_frames[f].values.v)
                  THEN t_frames[f].values.v[ValuePlace(f)].v ELSE <<>>
    IN /\ Len(row.v) = Cardinality(LabelKeySet) + (IF ValueExcluded THEN 0 ELSE 1)
       /\ \A key \in LabelKeySet :
            KeyPlace(key) <= Len(row.v) =>
                row.v[KeyPlace(key)] = (IF HasKey(labels, key) THEN Get(labels, key) ELSE EmptyStr)
       /\ ~ValueExcluded /\ row.v # <<>> =>
            Last(row.v) = (IF column = <<>> THEN EmptyStr ELSE _format_cell(Last(column)))

\* the one-to-one assignments of the rows to the given frames
RowAssignments(frames) ==
    {assignment \in [1..Len(TableRows) -> frames] :
        \A i, j \in 1..Len(TableRows) : assignment[i] = assignment[j] => i = j}

ConfiguredLabelKey == Get(t_kwargs.v, "label_key").v

\* the rows are the rows of the given frames, one for each: ordered by the
\* cell of the configured label key compared case-insensitively when that key
\* is a label column, in frame order otherwise
RowsOfFrames(frames) ==
    /\ Len(TableRows) = Cardinality(frames)
    /\ Get(t_out.v, "row_count") = PyInt(Cardinality(frames))
    /\ \E assignment \in RowAssignments(frames) :
        /\ \A i \in 1..Len(TableRows) : RowOfFrame(TableRows[i], assignment[i])
        /\ IF ConfiguredLabelKey \in LabelKeySet
           THEN \A i \in 1..(Len(TableRows) - 1) :
                    ~StrLess(Lower(TableRows[i + 1].v[KeyPlace(ConfiguredLabelKey)].v),
                             Lower(TableRows[i].v[KeyPlace(ConfiguredLabelKey)].v))
           ELSE \A i \in 1..(Len(TableRows) - 1) : assignment[i] < assignment[i + 1]

\* C17 as stated: on the multi-frame path rows holds exactly one row per frame
\* (row_count is the number of frames), each from the frame's label map and
\* the last element of its value column; the rows are ordered by the cell of
\* the configured label key, compared case-insensitively, when that key is a
\* label column, and are in frame order otherwise.
C17_OneRowPerFrame == OnMultiFramePath => RowsOfFrames(1..Len(t_frames))

\* C17, amended: on the multi-frame path rows holds exactly one row per frame
\* that has a non-time field (row_count is the number of those frames), each
\* from the frame's label map and the last element of its value column; the
\* rows are ordered by the cell of the configured label key, compared
\* case-insensitively, when that key is a label column, and are in frame
\* order otherwise.
C17_OneRowPerFrameWithValue == OnMultiFramePath => RowsOfFrames(FramesWithValue)

\* two frames named Beta and alpha: the row of the second frame comes first
C17_Witness ==
    /\ OnMultiFramePath
    /\ Len(t_frames) = 2
    /\ FramesWithValue = {1, 2}
    /\ ConfiguredLabelKey = w_name
    /\ w_name \in LabelKeySet
    /\ Len(TableRows) = 2
    /\ TableRows[1].v[KeyPlace(w_name)] = PyStr(w_alpha)
    /\ TableRows[2].v[KeyPlace(w_name)] = PyStr(w_Beta)
    /\ RowOfFrame(TableRows[1], 2)

---------------------------------------------------------------------------
(* DataFrame accessors: the time column and the value columns *)

AccessInit == AccessInputs /\ OthersIdle /\ TimestampIdle /\ LimiterIdle
SpecAccess == AccessInit /\ [][AccessNext]_vars

TimeValuesCalled == t_op # "none" /\ t_out.get_time_values # NotCalled
ValueFieldsCalled == t_op # "none" /\ t_out.get_value_fields # NotCalled

\* the positions that have both a field and a column
ColumnPlaces(fr) ==
    {n \in 1..Len(fr.fields.v) : n <= Len(fr.values.v)}

TypedAsTime(fr) ==
    {n \in ColumnPlaces(fr) :
        HasKey(fr.fields.v[n].v, "type") /\ Get(fr.fields.v[n].v, "type") = S("time")}

NamedAs(fr, name) ==
    {n \in ColumnPlaces(fr) :
        HasKey(fr.fields.v[n].v, "name") /\ Get(fr.fields.v[n].v, "name") = S(name)}

Lowest(places) == CHOOSE n \in places : \A m \in places : n <= m

\* the first column starts with a number greater than 1 000 000 000
\* (the columns checked hold ints)
StartsWithEpoch(fr) ==
    /\ fr.values.v # <<>>
    /\ fr.values.v[1].v # <<>>
    /\ fr.values.v[1].v[1].t = "int"
    /\ fr.values.v[1].v[1].v[1] > 1000000000

\* the position of the time column, 0 when there is none
TimePlace(fr) ==
    IF TypedAsTime(fr) # {} THEN Lowest(TypedAsTime(fr))
    ELSE IF NamedAs(fr, "Time") # {} THEN Lowest(NamedAs(fr, "Time"))
    ELSE IF NamedAs(fr, "time") # {} THEN Lowest(NamedAs(fr, "time"))
    ELSE IF NamedAs(fr, "timestamp") # {} THEN Lowest(NamedAs(fr, "timestamp"))
    ELSE IF NamedAs(fr, "Timestamp") # {} THEN Lowest(NamedAs(fr, "Timestamp"))
    ELSE IF StartsWithEpoch(fr) THEN 1
    ELSE 0

\* C21: get_time_values returns the column of the first field typed "time";
\* without one, the column of the first field found under the names Time,
\* time, timestamp, Timestamp tried in that order; without one, the first
\* column when its first value is a number above 1 000 000 000; otherwise the
\* empty sequence.  A field counts only when values has a column at its
\* position, so the result is always a column that exists (or empty) when
\* fields outnumber columns.
C21_TimeColumnByTypeNameEpoch ==
    TimeValuesCalled =>
        /\ t_out.get_time_values.t = "list"
        /\ t_out.get_time_values =
              IF TimePlace(t_frames[1]) = 0 THEN PyList(<<>>)
              ELSE t_frames[1].values.v[TimePlace(t_frames[1])]

\* no field is typed as time, a field named timestamp stands before a field
\* named Time, both with two values, and the column of the second is returned
C21_Witness ==
    /\ TimeValuesCalled
    /\ TypedAsTime(t_frames[1]) = {}
    /\ NamedAs(t_frames[1], "timestamp") = {1}
    /\ NamedAs(t_frames[1], "Time") = {2}
    /\ Len(t_frames[1].values.v[2].v) = 2
    /\ t_out.get_time_values = t_frames[1].values.v[2]
    /\ t_out.get_time_values # t_frames[1].values.v[1]

---------------------------------------------------------------------------
(* Panel.datasource_uid *)

UidInit == UidInputs /\ OthersIdle /\ TimestampIdle /\ LimiterIdle
SpecUid == UidInit /\ [][UidNext]_vars

UidCalled == t_op = "datasource_uid"

\* a datasource reference that has a uid set
HasUid(ds) == ds.t = "dict" /\ HasKey(ds.v, "uid") /\ Get(ds.v, "uid") \notin {None, EmptyStr}

\* the positions of the targets whose own datasource has a uid set
TargetsWithUid(p) ==
    {i \in 1..Len(p.targets.v) :
        /\ HasKey(p.targets.v[i].v, "datasource")
        /\ HasUid(Get(p.targets.v[i].v, "datasource"))}

FirstUidOfTargets(p) ==
    IF TargetsWithUid(p) = {} THEN None
    ELSE Get(Get(p.targets.v[CHOOSE i \in TargetsWithUid(p) :
                                \A j \in TargetsWithUid(p) : i <= j].v, "datasource").v, "uid")

\* C22: datasource_uid is the panel-level datasource's uid when it has one,
\* otherwise the uid of the first target, in target order, whose own
\* datasource has a uid set, and null when neither exists; a panel-level
\* datasource without a uid does not prevent the fallback to the targets.
C22_PanelUidElseFirstTargetUid ==
    UidCalled =>
        t_out = IF HasUid(t_panel.datasource) THEN Get(t_panel.datasource.v, "uid")
                ELSE FirstUidOfTargets(t_panel)

---------------------------------------------------------------------------
(* Panel field config readers *)

ConfigInit == ConfigInputs /\ OthersIdle /\ TimestampIdle /\ LimiterIdle
SpecConfig == ConfigInit /\ [][ConfigNext]_vars

ConfigCalled == t_op \in {"get_unit", "get_decimals", "get_min_max", "get_thresholds"}

\* field_config.defaults when both are mappings, the empty mapping when
\* field_config is a mapping without defaults
ConfiguredDefaults(p) ==
    IF p.field_config.t = "dict" /\ HasKey(p.field_config.v, "defaults")
    THEN Get(p.field_config.v, "defaults")
    ELSE PyDict(<<>>)

\* the key is absent: from defaults, or with defaults or field_config absent
KeyAbsent(p, key) ==
    /\ p.field_config.t = "dict"
    /\ ConfiguredDefaults(p).t = "dict"
    /\ ~HasKey(ConfiguredDefaults(p).v, key)

\* C23: for every panel get_unit, get_decimals, get_min_max and
\* get_thresholds never raise, and with field_config, defaults, thresholds or
\* the key itself absent they return the empty unit, null decimals,
\* (null, null) and the empty step list.
C23_ConfigReadersNeverRaise ==
    ConfigCalled =>
        /\ t_out.t # "raised"
        /\ (t_op = "get_unit" /\ KeyAbsent(t_panel, "unit")) => t_out = EmptyStr
        /\ (t_op = "get_decimals" /\ KeyAbsent(t_panel, "decimals")) => t_out = None
        /\ (t_op = "get_min_max" /\ KeyAbsent(t_panel, "min") /\ KeyAbsent(t_panel, "max"))
              => t_out = PyTuple(<<None, None>>)
        /\ (t_op = "get_thresholds"
            /\ (\/ KeyAbsent(t_panel, "thresholds")
                \/ (/\ ~KeyAbsent(t_panel, "thresholds")
                    /\ ConfiguredDefaults(t_panel).t = "dict"
                    /\ HasKey(ConfiguredDefaults(t_panel).v, "thresholds")
                    /\ Get(ConfiguredDefaults(t_panel).v, "thresholds") = PyDict(<<>>))))
              => t_out = PyList(<<>>)

---------------------------------------------------------------------------
(* Stat: the sparkline *)

StatInit == StatInputs /\ OthersIdle /\ TimestampIdle /\ LimiterIdle
SpecStat == StatInit /\ [][StatNext]_vars

StatCalled == t_op = "StatTransformer.transform"

HasSparkline == HasKey(t_out.v, "sparkline")
Sparkline == Get(t_out.v, "sparkline").v

\* the time column of the first frame
StatTimeColumn ==
    IF TimePlace(t_frames[1]) = 0 THEN <<>>
    ELSE t_frames[1].values.v[TimePlace(t_frames[1])].v

\* the indices at which the value column has a time beside it and is not null
PairedIndices(times, column) ==
    {i \in 1..Len(column) : i <= Len(times) /\ column[i] # None}

\* the sparkline is the pairs of the indices in index order
SparklinePairsUp(times, column) ==
    /\ Len(Sparkline) = Cardinality(PairedIndices(times, column))
    /\ \A i \in PairedIndices(times, column) :
          Sparkline[Cardinality({j \in PairedIndices(times, column) : j <= i})]
              = PyDict(<<Entry("time", times[i]), Entry("value", column[i])>>)

\* C24: the stat output has a sparkline key only when the first frame's first
\* non-time column has more than one point; the sparkline is then the
\* {time, value} pairs of that column paired index-for-index with the frame's
\* time column, in index order, without the pairs whose value is null; an
\* empty query result gives value null, formatted_value "N/A", color green
\* and no sparkline.
C24_SparklineOfFirstColumn ==
    StatCalled =>
        /\ HasSparkline =>
              /\ t_frames # <<>>
              /\ ValuePositions(t_frames[1]) # {}
              /\ Len(FirstValueColumn(t_frames[1])) > 1
              /\ SparklinePairsUp(StatTimeColumn, FirstValueColumn(t_frames[1]))
        /\ t_frames = <<>> =>
              /\ Get(t_out.v, "value") = None
              /\ Get(t_out.v, "formatted_value") = S("N/A")
              /\ Get(t_out.v, "color") = S("green")
              /\ ~HasSparkline

\* three values, the second null, beside two instants: one pair, the first
C24_Witness ==
    /\ StatCalled
    /\ Len(t_frames) = 2
    /\ TimePlace(t_frames[1]) = 1
    /\ Len(StatTimeColumn) = 2
    /\ ValuePositions(t_frames[1]) # {}
    /\ Len(FirstValueColumn(t_frames[1])) = 3
    /\ FirstValueColumn(t_frames[1])[2] = None
    /\ HasSparkline
    /\ Sparkline = <<PyDict(<<Entry("time", PyInt(60)), Entry("value", PyInt(75))>>)>>

---------------------------------------------------------------------------
(* _format_value: the rendered number and the unit suffix *)

FormatInit == FormatInputs /\ OthersIdle /\ TimestampIdle /\ LimiterIdle
SpecFormat == FormatInit /\ [][FormatNext]_vars

FormatCalled == t_op = "_format_value"

FormatArg(key) == Get(t_kwargs.v, key)

\* a float in thousandths
Millis(value) ==
    IF Len(value.v) = 2 THEN 10 * value.v[1] + value.v[2] ELSE 10 * value.v[1]

\* the multiples of step nearest to m
NearestMultiples(m, step) ==
    {r \in (m - step)..(m + step) :
        r % step = 0 /\ 2 * (IF r < m THEN m - r ELSE r - m) <= step}

\* the text of the float of r thousandths; a rounded negative keeps its sign
FloatText(r, negative) ==
    (IF negative THEN <<"-">> ELSE <<>>) \o MilliStr(IF r < 0 THEN -r ELSE r)

\* the thousandths that one step of the given number of places spans
PlaceStep(places) ==
    CASE places = 0 -> 1000 [] places = 1 -> 100 [] places = 2 -> 10 [] OTHER -> 1

\* the renderings of the number the claim allows
RenderedNumbers(value, decimals) ==
    IF value.t # "float" THEN {Str(value)}
    ELSE IF decimals # None
    THEN {FloatText(r, Millis(value) < 0) :
            r \in NearestMultiples(Millis(value), PlaceStep(decimals.v[1]))}
    ELSE IF Millis(value) % 1000 = 0 THEN {Str(PyInt(Millis(value) \div 1000))}
    ELSE {FloatText(r, Millis(value) < 0) : r \in NearestMultiples(Millis(value), 10)}

\* the suffix of a unit
SuffixOfUnit(unit) ==
    CASE unit \in {S("percent"), S("percentunit")} -> <<"%">>
      [] unit \in {S("bytes"), S("decbytes")} -> <<" ", "B">>
      [] unit = S("bits") -> <<" ", "b">>
      [] unit = S("s") -> <<"s">>
      [] unit = S("ms") -> <<"m", "s">>
      [] unit = S("ns") -> <<"n", "s">>
      [] unit = EmptyStr -> <<>>
      [] OTHER -> <<" ">> \o unit.v

\* C25: _format_value returns "N/A" for a null value whatever the unit;
\* otherwise the rendered number (a float with explicit decimals rounded to
\* that many places, a float without them as an integer when it equals its
\* truncation and rounded to 2 places otherwise, any other value as its string
\* form) immediately followed by the unit suffix: "%" for percent and
\* percentunit, " B" for bytes and decbytes, " b" for bits, the unit itself
\* for s, ms and ns, a space and the unit for any other non-empty unit,
\* nothing for the empty unit.
C25_NumberThenUnitSuffix ==
    FormatCalled =>
        IF FormatArg("value") = None THEN t_out = S("N/A")
        ELSE \E number \in RenderedNumbers(FormatArg("value"), FormatArg("decimals")) :
                t_out = PyStr(number \o SuffixOfUnit(FormatArg("unit")))

\* 85.567 with two decimals and the unit percent gives "85.57%"
C25_Witness ==
    /\ FormatCalled
    /\ FormatArg("value") = PyFloat3(8556, 7)
    /\ FormatArg("decimals") = PyInt(2)
    /\ FormatArg("unit") = S("percent")
    /\ t_out = PyStr(<<"8", "5", ".", "5", "7", "%">>)


---------------------------------------------------------------------------
(* fetch_and_send: what a push cycle delivers and returns *)

PushInit == PushStart /\ SubstIdle /\ QueryIdle /\ FrameIdle /\ ResultIdle /\ ThresholdIdle
    /\ TransformIdle /\ TimestampIdle /\ LimiterIdle
SpecPush == PushInit /\ [][PushNext]_vars

PushCycle == caller = "fetch_and_send"

\* the calls of trmnl.send that the webhook accepted
Delivered == {n \in 1..Len(webhook) : webhook[n].result = PyBool(TRUE)}

\* the calls of trmnl.send that carried what the transformer returned
NormalSends == {n \in 1..Len(webhook) : transformed.t = "dict" /\ webhook[n].payload = transformed}

\* the calls of trmnl.send that carried an error payload
ErrorSends ==
    {n \in 1..Len(webhook) :
        /\ HasKey(webhook[n].payload.v, "panel_type")
        /\ Get(webhook[n].payload.v, "panel_type") = S("error")
        /\ HasKey(webhook[n].payload.v, "error_message")}

---------------------------------------------------------------------------
(* query_panel: the queries sent upstream *)

PanelQueried == panel # Idle /\ calls > 0

PanelDatasourceData == Get(panel_data, c_datasource)

\* the panel has a datasource: if panel.datasource
PanelHasDatasource ==
    PanelDatasourceData # None /\ PanelDatasourceData.v # <<>>

\* the target has no datasource: the key is absent, or its value is empty
LacksDatasource(target) ==
    \/ ~HasKey(target.v, c_datasource)
    \/ Get(target.v, c_datasource) = None
    \/ Get(target.v, c_datasource).v = <<>>

\* the target with the datasource it is sent with, before substitution
WithDatasource(target) ==
    IF LacksDatasource(target) /\ PanelHasDatasource
    THEN IF HasKey(target.v, c_datasource)
         THEN PyDict(Overridden(target.v, <<Entry(c_datasource, PanelDatasourceData)>>))
         ELSE PyDict(Append(target.v, Entry(c_datasource, PanelDatasourceData)))
    ELSE target

\* the argument after `variables or {}`
PassedVariables == IF Truthy(passed) THEN passed ELSE PyDict(<<>>)

\* no string inside the value holds a "$"
RECURSIVE NoReference(_)
NoReference(val) ==
    CASE val.t = "str" -> \A i \in 1..Len(val.v) : val.v[i] # "$"
      [] val.t = "dict" -> \A i \in 1..Len(val.v) : NoReference(val.v[i].v)
      [] val.t = "list" -> \A i \in 1..Len(val.v) : NoReference(val.v[i])
      [] OTHER -> TRUE

\* C27: every query that query_panel sends upstream is built from one panel
\* target, in target order: a target without a datasource (key absent or value
\* empty) is sent with the panel-level datasource when the panel has one, a
\* target with its own datasource keeps it, and the variables are substituted
\* after this inheritance, so also inside an inherited panel datasource; with
\* no panel datasource and no variable references the queries sent equal the
\* panel's targets.
C27_InheritThenSubstitute ==
    PanelQueried =>
        /\ Len(queries) = Len(PanelTargetsData)
        /\ \A i \in 1..Len(queries) :
              /\ queries[i] = _substitute_variables(WithDatasource(PanelTargetsData[i]), PassedVariables)
              /\ ~LacksDatasource(PanelTargetsData[i]) =>
                    Get(queries[i].v, c_datasource)
                        = _substitute_variables(Get(PanelTargetsData[i].v, c_datasource), PassedVariables)
        /\ (~PanelHasDatasource /\ \A i \in 1..Len(queries) : NoReference(PanelTargetsData[i]))
              => queries = PanelTargetsData

\* a panel whose datasource has the uid ${ds} was queried with ds = uid-1: the
\* first target, which has no datasource key, was sent with the panel's
\* datasource and the uid uid-1; the second target kept its own datasource
C27_Witness ==
    /\ PanelQueried
    /\ Len(queries) = 2
    /\ PanelDatasourceData.t = "dict" /\ HasKey(PanelDatasourceData.v, c_uid)
    /\ Get(PanelDatasourceData.v, c_uid) = PyStr(BracedRef(c_ds))
    /\ passed = PyDict(<<Entry(c_ds, PyStr(c_uid_1))>>)
    /\ ~HasKey(PanelTargetsData[1].v, c_datasource)
    /\ Get(Get(queries[1].v, c_datasource).v, c_uid) = PyStr(c_uid_1)
    /\ ~LacksDatasource(PanelTargetsData[2])
    /\ Get(queries[2].v, c_datasource) = Get(PanelTargetsData[2].v, c_datasource)


---------------------------------------------------------------------------
(* Tables: the shape of rows *)

\* C28: for every panel, every query result and both table paths (standard and
\* multi-frame, with any exclusions and renames), every row of the table
\* transformer's rows has exactly as many cells as columns has entries, every
\* cell is a string, and row_count equals the number of rows.
C28_RowsMatchColumns ==
    TableCalled =>
        /\ \A r \in 1..Len(TableRows) :
              /\ TableRows[r].t = "list"
              /\ Len(TableRows[r].v) = Len(TableColumns)
              /\ \A c \in 1..Len(TableRows[r].v) : TableRows[r].v[c].t = "str"
        /\ Get(t_out.v, "row_count") = PyInt(Len(TableRows))

\* a multi-frame table of a panel that excludes a name: two rows of at least
\* two cells, one of which is empty because the frame lacks the label
C28_Witness ==
    /\ OnMultiFramePath
    /\ get_excluded_fields(t_panel) # {}
    /\ Len(TableRows) = 2
    /\ Len(TableColumns) >= 2
    /\ \E r \in 1..2 : \E c \in 1..(Len(TableColumns) - 1) : TableRows[r].v[c] = EmptyStr
    /\ \A r \in 1..2 : Len(TableRows[r].v) = Len(TableColumns)


---------------------------------------------------------------------------
(* DataFrame accessors: the time column among the value columns *)

BothCalled == TimeValuesCalled /\ ValueFieldsCalled

\* the positions whose field name and column get_value_fields returned
ReturnedPlaces(fr) ==
    {n \in ColumnPlaces(fr) :
        \E i \in 1..Len(t_out.get_value_fields.v) :
            /\ t_out.get_value_fields.v[i].name = FieldNameAt(fr, n)
            /\ t_out.get_value_fields.v[i].values = fr.values.v[n]}

\* C29: for every DataFrame, the column that get_time_values returns as the
\* time column is never also returned as one of the value columns by
\* get_value_fields.
C29_TimeColumnIsNoValueColumn ==
    (BothCalled /\ TimePlace(t_frames[1]) # 0) =>
        /\ t_out.get_time_values = t_frames[1].values.v[TimePlace(t_frames[1])]
        /\ TimePlace(t_frames[1]) \notin ReturnedPlaces(t_frames[1])


---------------------------------------------------------------------------
(* RateLimiter: at most limit allowed calls per URL and window *)

LimiterInit == LimiterStart /\ OthersIdle /\ TransformIdle /\ TimestampIdle
SpecLimiter == LimiterInit /\ [][LimiterNext]_vars

LimiterCalled == RATE_LIMIT # Idle /\ allowed # <<>>

\* the calls for url that returned True at a time in (from, to]
AllowedIn(url, from, to) ==
    {i \in 1..Len(allowed) :
        /\ allowed[i].url = url
        /\ allowed[i].result
        /\ from < allowed[i].at /\ allowed[i].at <= to}

\* the calls for url before call j
EarlierCalls(url, j) == {i \in 1..(j - 1) : allowed[i].url = url}

\* the time of the latest call for url
LatestCall(url) ==
    allowed[CHOOSE j \in 1..Len(allowed) :
                /\ allowed[j].url = url
                /\ \A i \in (j + 1)..Len(allowed) : allowed[i].url # url].at

\* the times of the calls in places, a set of positions of allowed, in order
RECURSIVE TimesOf(_, _)
TimesOf(places, i) ==
    IF i > Len(allowed) THEN <<>>
    ELSE (IF i \in places THEN <<allowed[i].at>> ELSE <<>>) \o TimesOf(places, i + 1)

\* C30: with a fixed positive limit L and any sequence of is_allowed calls at
\* non-decreasing times for any mix of URLs, for each URL the number of calls
\* that returned True within any window of 60 seconds (t - 60, t] never exceeds
\* L; a call that returns False records no timestamp (the timestamps recorded
\* for a URL are those of its True calls inside the window of its latest
\* call); the outcome of a call follows from the earlier calls for the same
\* URL alone; with no limit configured every call returns True.
C30_AtMostLimitPerWindow ==
    LimiterCalled =>
        IF limit(RATE_LIMIT) = None
        THEN /\ \A i \in 1..Len(allowed) : allowed[i].result
             /\ \A url \in LimiterUrls : _requests[url] = <<>>
        ELSE /\ \A url \in LimiterUrls : \A t \in 0..clock :
                  Cardinality(AllowedIn(url, t - _window, t)) <= limit(RATE_LIMIT).v[1]
             /\ \A url \in LimiterUrls :
                  _requests[url] =
                      IF \E i \in 1..Len(allowed) : allowed[i].url = url
                      THEN TimesOf(AllowedIn(url, LatestCall(url) - _window, LatestCall(url)), 1)
                      ELSE <<>>
             /\ \A j \in 1..Len(allowed) :
                  allowed[j].result <=>
                      Cardinality(AllowedIn(allowed[j].url, allowed[j].at - _window, allowed[j].at)
                                      \cap EarlierCalls(allowed[j].url, j))
                          < limit(RATE_LIMIT).v[1]

\* with the limit 1: a call for a URL is allowed, the next for it 59 seconds
\* later is refused, and the one 60 seconds after the first is allowed again
\* and leaves its timestamp alone in the record
C30_Witness ==
    /\ limit(RATE_LIMIT) = PyInt(1)
    /\ Len(allowed) = 3
    /\ allowed[1].url = allowed[2].url /\ allowed[3].url = allowed[1].url
    /\ allowed[1].result /\ ~allowed[2].result /\ allowed[3].result
    /\ allowed[2].at = allowed[1].at + _window - 1
    /\ allowed[3].at = allowed[1].at + _window
    /\ _requests[allowed[1].url] = <<allowed[3].at>>
====
